---- MODULE Spec2Model ----
(***************************************************************************)
(* ForgeFFI network-interface control engine: the apply orchestrator       *)
(* (forgeffi-sys/src/netif/mod.rs), its validator and target resolver, and *)
(* the C boundary that delivers the response (forgeffi-net-ffi).           *)
(*                                                                         *)
(* Strings whose syntax the code inspects (IP literals) are sequences of   *)
(* one-character strings; Option<T> is a sequence of length at most one.   *)
(***************************************************************************)
EXTENDS Integers, Sequences, FiniteSets, TLC

VARIABLES
    pc,          \* position of the apply call: Idle, Start, ResolveTarget, ValidateAndDispatch, Done
    input,       \* what the caller handed to tool_netif_apply_json
    osIfaces,    \* the interfaces the OS currently has (what the OS utility would print)
    ifaces,      \* apply_request's local `ifaces`: the snapshot taken by list_interfaces()
    target,      \* apply_request's local `target`: Option<ResolvedTarget>
    k,           \* number of operations of req.ops already processed by the loop
    results,     \* apply_request's local `results`
    all_ok,      \* apply_request's local `all_ok`
    out,         \* the payload written through out_ptr/out_len (Option)
    ret,         \* the i32 returned by tool_netif_apply_json (Option)
    enumCalls,   \* history: calls of list_interfaces() made by the current apply call
    resolveCalls,\* history: calls of resolve_target() made by the current apply call
    validated,   \* history: operation indices handed to validate_op, in call order
    dispatched,  \* history: what was handed to platform::apply_one, in call order
    vin,         \* input of the pure function under check (validator / resolver specifications)
    vout,        \* its result
    parseCalls,  \* history: calls of serde_json::from_str made by the current apply call
    CACHED,      \* platform_linux::nmcli_available's `static CACHED: OnceLock<bool>` (Option)
    osNmcli,     \* whether `nmcli -v` can be run successfully on the OS right now
    lastList,    \* history: the latest enumeration's result and the OS it was taken from (Option)
    heap,        \* allocations of the engine's allocator that are live
    held,        \* the (ptr, len) pairs the caller was handed and has not passed to tool_free
    handed,      \* history: number of buffers written out by list/apply
    released,    \* history: number of buffers tool_free gave back to the allocator
    lost,        \* bytes handed out that the allocator can no longer account for
    crashed,     \* the process was brought down by a deallocation
    last         \* the C-boundary call that returned last: function, inputs, return value, output

linuxVars == <<CACHED, osNmcli, lastList>>

memVars == <<heap, held, handed, released, lost, crashed, last>>

vars == <<pc, input, osIfaces, ifaces, target, k, results, all_ok, out, ret,
          enumCalls, resolveCalls, validated, dispatched, vin, vout,
          parseCalls, linuxVars, memVars>>

----------------------------------------------------------------------------
(* Option<T> *)

None == <<>>

Some(x) == <<x>>

IsSome(o) == o # <<>>

Unwrap(o) == o[1]

----------------------------------------------------------------------------
(* Error taxonomy *)

ABI_VERSION == 1

NETIF_ABI_VERSION == ABI_VERSION

ErrorCode == {"Ok", "InvalidArgument", "NotFound", "Unsupported",
              "PermissionDenied", "SystemError", "Unknown"}

as_i32(code) ==
    CASE code = "Ok" -> 0
      [] code = "InvalidArgument" -> 1
      [] code = "NotFound" -> 2
      [] code = "Unsupported" -> 3
      [] code = "PermissionDenied" -> 4
      [] code = "SystemError" -> 5
      [] code = "Unknown" -> 999

ForgeFfiError(code, message) == [code |-> code, message |-> message]

invalid_argument(message) == ForgeFfiError("InvalidArgument", message)

not_found(message) == ForgeFfiError("NotFound", message)

unsupported(message) == ForgeFfiError("Unsupported", message)

system_error(message) == ForgeFfiError("SystemError", message)

permission_denied(message) == ForgeFfiError("PermissionDenied", message)

\* Result<T, ForgeFfiError>
Ok(v) == [ok |-> TRUE, val |-> v]

Err(e) == [ok |-> FALSE, err |-> e]

\* A Result that is an Err of the given code.
FailsWith(res, code) == ~res.ok /\ res.err.code = code

----------------------------------------------------------------------------
(* str::parse::<std::net::IpAddr>() as validate_op calls it: the whole     *)
(* input must be one IPv4 dotted quad or one IPv6 literal.                 *)

Fail == 0

DecDigits == {"0", "1", "2", "3", "4", "5", "6", "7", "8", "9"}

HexDigits == DecDigits \cup {"a", "b", "c", "d", "e", "f", "A", "B", "C", "D", "E", "F"}

DigitVal(c) ==
    CASE c = "0" -> 0 [] c = "1" -> 1 [] c = "2" -> 2 [] c = "3" -> 3 [] c = "4" -> 4
      [] c = "5" -> 5 [] c = "6" -> 6 [] c = "7" -> 7 [] c = "8" -> 8 [] c = "9" -> 9
      [] OTHER -> 10

\* Number of consecutive characters of s from position p on that are in digits.
RECURSIVE DigitRun(_, _, _)
DigitRun(s, p, digits) ==
    IF p <= Len(s) /\ s[p] \in digits THEN 1 + DigitRun(s, p + 1, digits) ELSE 0

RECURSIVE DecValue(_, _, _)
DecValue(s, p, n) ==
    IF n = 0 THEN 0 ELSE DecValue(s, p, n - 1) * 10 + DigitVal(s[p + n - 1])

\* read_number(10, Some(3), false) into a u8, given its run of n digits at p:
\* the position after it, or Fail.
ReadOctetRun(s, p, n) ==
    IF n = 0 \/ n > 3 THEN Fail
    ELSE IF s[p] = "0" /\ n > 1 THEN Fail
    ELSE IF DecValue(s, p, n) > 255 THEN Fail
    ELSE p + n

ReadOctet(s, p) ==
    IF p = Fail THEN Fail ELSE ReadOctetRun(s, p, DigitRun(s, p, DecDigits))

\* read_number(16, Some(4), true) into a u16, given its run of n digits at p.
ReadHexGroupRun(p, n) == IF n = 0 \/ n > 4 THEN Fail ELSE p + n

ReadHexGroup(s, p) ==
    IF p = Fail THEN Fail ELSE ReadHexGroupRun(p, DigitRun(s, p, HexDigits))

ReadGivenChar(s, p, c) ==
    IF p # Fail /\ p <= Len(s) /\ s[p] = c THEN p + 1 ELSE Fail

\* read_ipv4_addr: four octets separated by '.'.
ReadIpv4Addr(s, p) ==
    ReadOctet(s, ReadGivenChar(s,
    ReadOctet(s, ReadGivenChar(s,
    ReadOctet(s, ReadGivenChar(s,
    ReadOctet(s, p), ".")), ".")), "."))

\* read_separator(':', i, inner): a ':' first unless this is group 0.
AfterSeparator(s, p, i) == IF i = 0 THEN p ELSE ReadGivenChar(s, p, ":")

\* read_groups: up to `limit` 16-bit groups from p, the last two possibly an
\* embedded IPv4 address. [size, ipv4, pos].
RECURSIVE ReadGroups(_, _, _, _)
\* Group i, after its separator, read as an embedded IPv4 address (v4) or as a
\* hexadecimal group (g).
ReadGroupsStep(s, p, limit, i, v4, g) ==
    IF v4 # Fail THEN [size |-> i + 2, ipv4 |-> TRUE, pos |-> v4]
    ELSE IF g # Fail THEN ReadGroups(s, g, limit, i + 1)
    ELSE [size |-> i, ipv4 |-> FALSE, pos |-> p]

ReadGroupsAt(s, p, limit, i, q) ==
    ReadGroupsStep(s, p, limit, i,
                   IF i < limit - 1 THEN ReadIpv4Addr(s, q) ELSE Fail,
                   ReadHexGroup(s, q))

ReadGroups(s, p, limit, i) ==
    IF i >= limit THEN [size |-> limit, ipv4 |-> FALSE, pos |-> p]
    ELSE ReadGroupsAt(s, p, limit, i, AfterSeparator(s, p, i))

\* The tail of read_ipv6_addr after "::" (gap: the position after it, or Fail).
ReadIpv6Tail(s, head_size, gap) ==
    IF gap = Fail THEN Fail ELSE ReadGroups(s, gap, 8 - (head_size + 1), 0).pos

ReadIpv6AfterHead(s, head) ==
    IF head.size = 8 THEN head.pos
    ELSE IF head.ipv4 THEN Fail
    ELSE ReadIpv6Tail(s, head.size,
                      ReadGivenChar(s, ReadGivenChar(s, head.pos, ":"), ":"))

\* read_ipv6_addr: eight groups, or a head, "::" and a tail of at most 7 - head groups.
ReadIpv6Addr(s, p) == ReadIpv6AfterHead(s, ReadGroups(s, p, 8, 0))

\* parse_with: the whole input must be consumed.
WholeInput(s, end, family) == IF end # Fail /\ end = Len(s) + 1 THEN family ELSE "Err"

ReadIpAddr(s, v4) ==
    IF v4 # Fail THEN WholeInput(s, v4, "V4") ELSE WholeInput(s, ReadIpv6Addr(s, 1), "V6")

\* IpAddr::from_str: IPv4 is tried first, IPv6 only if that reads nothing.
ParseIpAddr(s) == ReadIpAddr(s, ReadIpv4Addr(s, 1))

----------------------------------------------------------------------------
(* Address strings of the requests *)

IP_V4_PLAIN == <<"1", "0", ".", "0", ".", "0", ".", "2", "5", "5">>

IP_V4_ANY == <<"0", ".", "0", ".", "0", ".", "0">>

IP_V4_OCTET_256 == <<"1", "0", ".", "0", ".", "0", ".", "2", "5", "6">>

IP_V4_LEADING_ZERO == <<"1", "0", ".", "0", ".", "0", ".", "0", "1">>

IP_V4_THREE_PARTS == <<"1", "0", ".", "0", ".", "1">>

IP_V4_TRAILING == <<"1", ".", "2", ".", "3", ".", "4", "/", "8">>

IP_V6_LOOPBACK == <<":", ":", "1">>

IP_V6_ANY == <<":", ":">>

IP_V6_LINK == <<"f", "e", "8", "0", ":", ":", "A", "b", ":", "1">>

IP_V6_FULL == <<"1", ":", "2", ":", "3", ":", "4", ":", "5", ":", "6", ":", "7", ":", "8">>

IP_V6_MAPPED == <<":", ":", "f", "f", "f", "f", ":", "1", ".", "2", ".", "3", ".", "4">>

IP_V6_NINE_GROUPS == <<"1", ":", "2", ":", "3", ":", "4", ":", "5", ":", "6", ":", "7", ":", "8", ":", "9">>

IP_V6_TWO_GAPS == <<"1", ":", ":", "2", ":", ":", "3">>

IP_V6_LONG_GROUP == <<":", ":", "1", "2", "3", "4", "5">>

IP_V6_FULL_WITH_GAP == <<"1", ":", "2", ":", "3", ":", "4", ":", ":", "5", ":", "6", ":", "7", ":", "8">>

IP_EMPTY == <<>>

IP_NAME == <<"e", "t", "h", "0">>

IpV4Strings == {IP_V4_PLAIN, IP_V4_ANY}

IpV6Strings == {IP_V6_LOOPBACK, IP_V6_ANY, IP_V6_LINK, IP_V6_FULL, IP_V6_MAPPED}

IpBadStrings == {IP_V4_OCTET_256, IP_V4_LEADING_ZERO, IP_V4_THREE_PARTS, IP_V4_TRAILING,
                 IP_V6_NINE_GROUPS, IP_V6_TWO_GAPS, IP_V6_LONG_GROUP, IP_V6_FULL_WITH_GAP,
                 IP_EMPTY, IP_NAME}

IpStrings == IpV4Strings \cup IpV6Strings \cup IpBadStrings

----------------------------------------------------------------------------
(* NetIfOp, the six mutation intents *)

SetAdminState(up) == [op |-> "SetAdminState", up |-> up]

SetMtu(mtu) == [op |-> "SetMtu", mtu |-> mtu]

AddIp(ip, prefix_len) == [op |-> "AddIp", ip |-> ip, prefix_len |-> prefix_len]

DelIp(ip, prefix_len) == [op |-> "DelIp", ip |-> ip, prefix_len |-> prefix_len]

SetIpv4Dhcp(enable) == [op |-> "SetIpv4Dhcp", enable |-> enable]

SetIpv4Static(ip, prefix_len, gateway) ==
    [op |-> "SetIpv4Static", ip |-> ip, prefix_len |-> prefix_len, gateway |-> gateway]

----------------------------------------------------------------------------
(* Validator *)

\* The family-dependent range check of AddIp, on the parsed address.
validate_AddIp_addr(addr, prefix_len) ==
    IF addr = "Err" THEN Err(invalid_argument("bad_ip"))
    ELSE IF addr = "V4" /\ prefix_len > 32 THEN Err(invalid_argument("ipv4_prefix_len_range"))
    ELSE IF addr = "V6" /\ prefix_len > 128 THEN Err(invalid_argument("ipv6_prefix_len_range"))
    ELSE Ok("unit")

\* validate_AddIp without its prefix_len == 0 rejection.
validate_AddIp_ZeroAllowed(op) == validate_AddIp_addr(ParseIpAddr(op.ip), op.prefix_len)

validate_AddIp(op) ==
    IF op.prefix_len = 0 THEN Err(invalid_argument("add_ip_prefix_len_0"))
    ELSE validate_AddIp_addr(ParseIpAddr(op.ip), op.prefix_len)

\* The family-dependent range check of DelIp, on the parsed address.
validate_DelIp_addr(addr, prefix_len) ==
    IF addr = "Err" THEN Err(invalid_argument("bad_ip"))
    ELSE IF addr = "V4" /\ prefix_len > 32 THEN Err(invalid_argument("ipv4_prefix_len_range"))
    ELSE IF addr = "V6" /\ prefix_len > 128 THEN Err(invalid_argument("ipv6_prefix_len_range"))
    ELSE Ok("unit")

validate_DelIp(op) == validate_DelIp_addr(ParseIpAddr(op.ip), op.prefix_len)

\* SetIpv4Static's check of a present gateway, on its parsed value.
validate_gateway(gw_addr) ==
    IF gw_addr = "Err" THEN Err(invalid_argument("bad_gateway"))
    ELSE IF gw_addr # "V4" THEN Err(invalid_argument("gateway_ipv4_only"))
    ELSE Ok("unit")

\* validate_SetIpv4Static_addr without its IPv4-only check of the address.
validate_SetIpv4Static_addr_AnyFamily(addr, gateway) ==
    IF addr = "Err" THEN Err(invalid_argument("bad_ip"))
    ELSE IF IsSome(gateway) THEN validate_gateway(ParseIpAddr(Unwrap(gateway)))
    ELSE Ok("unit")

\* SetIpv4Static's checks after the prefix length, on the parsed address.
validate_SetIpv4Static_addr(addr, gateway) ==
    IF addr = "Err" THEN Err(invalid_argument("bad_ip"))
    ELSE IF addr # "V4" THEN Err(invalid_argument("static_ipv4_only"))
    ELSE IF IsSome(gateway) THEN validate_gateway(ParseIpAddr(Unwrap(gateway)))
    ELSE Ok("unit")

validate_SetIpv4Static(op) ==
    IF op.prefix_len = 0 THEN Err(invalid_argument("ipv4_prefix_len_1_32"))
    ELSE IF op.prefix_len > 32 THEN Err(invalid_argument("ipv4_prefix_len_1_32"))
    ELSE validate_SetIpv4Static_addr(ParseIpAddr(op.ip), op.gateway)

\* validate_SetMtu accepting every mtu.
validate_SetMtu_ZeroAllowed(op) == Ok("unit")

validate_SetMtu(op) ==
    IF op.mtu = 0 THEN Err(invalid_argument("mtu_0")) ELSE Ok("unit")

validate_op(op) ==
    CASE op.op = "SetAdminState" -> Ok("unit")
      [] op.op = "SetMtu" -> validate_SetMtu(op)
      [] op.op = "AddIp" -> validate_AddIp(op)
      [] op.op = "DelIp" -> validate_DelIp(op)
      [] op.op = "SetIpv4Dhcp" -> Ok("unit")
      [] op.op = "SetIpv4Static" -> validate_SetIpv4Static(op)

----------------------------------------------------------------------------
(* Target resolver *)

NetInterface(if_index, name) == [if_index |-> if_index, name |-> name]

IfaceSelector(if_index, name) == [if_index |-> if_index, name |-> name]

\* iter().find(pred): the first element at one of the positions `hits`, as an Option.
First(ifs, hits) ==
    IF hits = {} THEN None ELSE Some(ifs[CHOOSE j \in hits : \A h \in hits : j <= h])

FindIndex(ifs, idx) == First(ifs, {j \in 1..Len(ifs) : ifs[j].if_index = idx})

FindName(ifs, name) == First(ifs, {j \in 1..Len(ifs) : ifs[j].name = name})

\* ResolvedTarget of a non-Windows build: the name alone.
ResolvedTarget(i) == [name |-> i.name]

\* The outcome of either lookup: the interface found, or NotFound.
FoundOr(found, message) ==
    IF IsSome(found) THEN Ok(ResolvedTarget(Unwrap(found))) ELSE Err(not_found(message))

\* resolve_target falling back to the name when the index matches nothing.
resolve_target_NameFallback(sel, ifs) ==
    IF IsSome(sel.if_index) /\ Unwrap(sel.if_index) # 0
          /\ (IsSome(FindIndex(ifs, Unwrap(sel.if_index))) \/ ~IsSome(sel.name))
    THEN FoundOr(FindIndex(ifs, Unwrap(sel.if_index)), "no_iface_with_if_index")
    ELSE IF IsSome(sel.name)
    THEN FoundOr(FindName(ifs, Unwrap(sel.name)), "no_iface_with_name")
    ELSE Err(invalid_argument("target_needs_if_index_or_name"))

resolve_target(sel, ifs) ==
    IF IsSome(sel.if_index) /\ Unwrap(sel.if_index) # 0
    THEN FoundOr(FindIndex(ifs, Unwrap(sel.if_index)), "no_iface_with_if_index")
    ELSE IF IsSome(sel.name)
    THEN FoundOr(FindName(ifs, Unwrap(sel.name)), "no_iface_with_name")
    ELSE Err(invalid_argument("target_needs_if_index_or_name"))

----------------------------------------------------------------------------
(* Messages and their serialized form *)

NetIfOpResult(i, ok, error) == [i |-> i, ok |-> ok, error |-> error]

NetIfApplyRequest(abi, tgt, ops) == [abi |-> abi, target |-> tgt, ops |-> ops]

NetIfApplyResponse(abi, ok, rs) == [abi |-> abi, ok |-> ok, results |-> rs]

\* serde of NetIfOpResult: `error` is skipped when it is None.
JsonOpResult(r) ==
    IF IsSome(r.error)
    THEN [i |-> r.i, ok |-> r.ok, error |-> Unwrap(r.error)]
    ELSE [i |-> r.i, ok |-> r.ok]

\* serde_json::to_vec(&resp) of a NetIfApplyResponse, as the JSON object it writes.
JsonApplyResponse(resp) ==
    [abi |-> resp.abi, ok |-> resp.ok,
     results |-> [j \in 1..Len(resp.results) |-> JsonOpResult(resp.results[j])]]

\* An error payload that reports every failure under the reserved code.
write_error_out_Unknown(e) ==
    [abi |-> ABI_VERSION, ok |-> FALSE, error |-> ForgeFfiError("Unknown", e.message)]

\* The payload write_error_out builds: json!({ "abi": ABI_VERSION, "ok": false, "error": e }).
write_error_out(e) == [abi |-> ABI_VERSION, ok |-> FALSE, error |-> e]

----------------------------------------------------------------------------
(* The requests and the operating system the apply call runs against *)

MaxOps == 2

OpPool == {SetMtu(0), SetAdminState(TRUE), AddIp(IP_V4_PLAIN, 24),
           SetIpv4Static(IP_V6_LOOPBACK, 24, None)}

RECURSIVE SeqsUpTo(_, _)
SeqsUpTo(S, n) ==
    IF n = 0 THEN {<<>>}
    ELSE LET shorter == SeqsUpTo(S, n - 1) IN
         shorter \cup {Append(q, x) : q \in {t \in shorter : Len(t) = n - 1}, x \in S}

OpLists == SeqsUpTo(OpPool, MaxOps)

AbiValues == {ABI_VERSION, ABI_VERSION + 1}

Selectors == {IfaceSelector(None, None),
              IfaceSelector(Some(2), None),
              IfaceSelector(None, Some("eth0")),
              IfaceSelector(Some(9), Some("eth0")),
              IfaceSelector(Some(0), Some("eth0"))}

Requests == {NetIfApplyRequest(a, t, o) : a \in AbiValues, t \in Selectors, o \in OpLists}

\* What the caller hands to tool_netif_apply_json.
Inputs == {[kind |-> kd, req |-> None] :
               kd \in {"null_out", "null_req", "zero_len", "non_utf8", "bad_json"}}
          \cup {[kind |-> "request", req |-> Some(r)] : r \in Requests}

OsWithEth0 == <<NetInterface(1, "lo"), NetInterface(2, "eth0")>>

OsWithoutEth0 == <<NetInterface(1, "lo")>>

OsReplugged == <<NetInterface(1, "lo"), NetInterface(2, "eth1"), NetInterface(3, "eth0")>>

OsIfaceLists == {OsWithEth0, OsWithoutEth0, OsReplugged}

\* How one run of the OS enumeration utility can end.
EnumOutcomes == {"ok", "cannot_invoke", "exit_nonzero", "unparsable"}

\* How platform::apply_one can end for a validated operation.
PlatformOutcomes == {"Ok", "InvalidArgument", "NotFound", "Unsupported",
                     "PermissionDenied", "SystemError"}

Names(ifs) == {ifs[j].name : j \in 1..Len(ifs)}

----------------------------------------------------------------------------
(* Platform layer, as the orchestrator sees it *)

\* platform::list_interfaces(): the OS utility's current answer, or why there is none.
list_interfaces(outcome, os) ==
    CASE outcome = "ok" -> Ok(os)
      [] outcome = "cannot_invoke" -> Err(unsupported("cannot_run_os_utility"))
      [] outcome = "exit_nonzero" -> Err(system_error("os_utility_failed"))
      [] outcome = "unparsable" -> Err(system_error("os_utility_output_unparsable"))

\* platform::apply_one(&target, &op): the OS tooling decides how it ends.
apply_one(tgt, op, outcome) ==
    IF outcome = "Ok" THEN Ok("unit") ELSE Err(ForgeFfiError(outcome, "platform"))

\* A detection that is made anew by every query.
nmcli_available_Fresh(cached, nmcli) == nmcli

\* platform_linux::nmcli_available(): CACHED.get_or_init(|| `nmcli -v` runs and succeeds).
nmcli_available(cached, nmcli) == IF IsSome(cached) THEN Unwrap(cached) ELSE nmcli

\* CACHED after a call of nmcli_available().
get_or_init(cached, nmcli) == Some(nmcli_available(cached, nmcli))

\* CACHED after platform_linux::list_interfaces(): map_iface asks nmcli_available()
\* for the capabilities of every interface the OS utility printed.
CachedAfterList(listed, cached, nmcli) ==
    IF listed.ok /\ Len(listed.val) > 0 THEN get_or_init(cached, nmcli) ELSE cached

----------------------------------------------------------------------------
(* tool_netif_apply_json -> apply_json_bytes -> apply_request *)

\* An emptiness check that looks at the pointer alone.
EmptyRequest_NullOnly(kind) == kind = "null_req"

\* req_ptr.is_null() || req_len == 0
EmptyRequest(kind) == kind \in {"null_req", "zero_len"}

\* The inputs that get as far as serde_json::from_str in apply_json_bytes.
Decoded(kind) == kind # "null_out" /\ ~EmptyRequest(kind) /\ kind # "non_utf8"

\* serde_json::from_str::<NetIfApplyRequest>(req_json): only well-formed request
\* text decodes.
from_str(inp) ==
    IF inp.kind = "request"
    THEN Ok(Unwrap(inp.req))
    ELSE Err(invalid_argument("request_json_parse"))

req == Unwrap(input.req)

\* The Err arm of tool_netif_apply_json: write_error_out(..); e.code.as_i32()
ReturnErr(e) ==
    /\ out' = Some(write_error_out(e))
    /\ ret' = Some(as_i32(e.code))
    /\ pc' = "Done"

\* The caller invokes tool_netif_apply_json with one of the inputs in S.
CallWith(S) ==
    /\ pc = "Idle"
    /\ input' \in S
    /\ pc' = "Start"
    /\ UNCHANGED <<osIfaces, ifaces, target, k, results, all_ok, out, ret,
                   enumCalls, resolveCalls, validated, dispatched, vin, vout,
                   parseCalls, linuxVars, memVars>>

Call == CallWith(Inputs)

\* An engine that takes any abi for its own.
AbiMismatch_Ignored(r) == FALSE

\* if req.abi != NETIF_ABI_VERSION
AbiMismatch(r) == r.abi # NETIF_ABI_VERSION

\* Pointer checks, UTF-8 decoding, JSON parsing and the ABI check.
Start ==
    /\ pc = "Start"
    /\ IF input.kind = "null_out"
       THEN /\ ret' = Some(as_i32("InvalidArgument"))
            /\ out' = None
            /\ pc' = "Done"
       ELSE IF EmptyRequest(input.kind)
       THEN ReturnErr(invalid_argument("request_empty"))
       ELSE IF input.kind = "non_utf8"
       THEN ReturnErr(invalid_argument("request_not_utf8"))
       ELSE IF ~from_str(input).ok
       THEN ReturnErr(from_str(input).err)
       ELSE IF AbiMismatch(from_str(input).val)
       THEN ReturnErr(invalid_argument("abi_mismatch"))
       ELSE /\ pc' = "ResolveTarget"
            /\ UNCHANGED <<out, ret>>
    /\ parseCalls' = IF Decoded(input.kind) THEN parseCalls + 1 ELSE parseCalls
    /\ UNCHANGED <<input, osIfaces, ifaces, target, k, results, all_ok,
                   enumCalls, resolveCalls, validated, dispatched, vin, vout,
                   linuxVars, memVars>>

\* ResolveTarget going on to the loop, with the selector's name, when no
\* interface matches the selector.
ResolveTarget_NoAbort ==
    /\ pc = "ResolveTarget"
    /\ \E o \in EnumOutcomes :
        /\ enumCalls' = enumCalls + 1
        /\ CACHED' = CachedAfterList(list_interfaces(o, osIfaces), CACHED, osNmcli)
        /\ IF ~list_interfaces(o, osIfaces).ok
           THEN /\ ReturnErr(list_interfaces(o, osIfaces).err)
                /\ UNCHANGED <<ifaces, target, resolveCalls>>
           ELSE /\ ifaces' = Some(osIfaces)
                /\ resolveCalls' = resolveCalls + 1
                /\ IF FailsWith(resolve_target(req.target, osIfaces), "InvalidArgument")
                   THEN /\ ReturnErr(resolve_target(req.target, osIfaces).err)
                        /\ UNCHANGED target
                   ELSE /\ target' = IF resolve_target(req.target, osIfaces).ok
                                     THEN Some(resolve_target(req.target, osIfaces).val)
                                     ELSE Some([name |-> "none"])
                        /\ pc' = "ValidateAndDispatch"
                        /\ UNCHANGED <<out, ret>>
    /\ UNCHANGED <<input, osIfaces, k, results, all_ok, validated, dispatched, vin, vout,
                   parseCalls, osNmcli, lastList, memVars>>

\* let ifaces = list_interfaces()?; let target = resolve_target(&req.target, &ifaces)?;
ResolveTarget ==
    /\ pc = "ResolveTarget"
    /\ \E o \in EnumOutcomes :
        LET listed == list_interfaces(o, osIfaces) IN
        /\ enumCalls' = enumCalls + 1
        /\ CACHED' = CachedAfterList(listed, CACHED, osNmcli)
        /\ IF ~listed.ok
           THEN /\ ReturnErr(listed.err)
                /\ UNCHANGED <<ifaces, target, resolveCalls>>
           ELSE LET r == resolve_target(req.target, listed.val) IN
                /\ ifaces' = Some(listed.val)
                /\ resolveCalls' = resolveCalls + 1
                /\ IF ~r.ok
                   THEN /\ ReturnErr(r.err)
                        /\ UNCHANGED target
                   ELSE /\ target' = Some(r.val)
                        /\ pc' = "ValidateAndDispatch"
                        /\ UNCHANGED <<out, ret>>
    /\ UNCHANGED <<input, osIfaces, k, results, all_ok, validated, dispatched, vin, vout,
                   parseCalls, osNmcli, lastList, memVars>>

\* A loop that stops at the first failed operation.
LoopDone_StopAtFailure == k = Len(req.ops) \/ ~all_ok

\* The `for` loop over req.ops has run to its end.
LoopDone == k = Len(req.ops)

\* A target resolved again, against the OS as it is now, for each operation.
DispatchTarget_Reresolved ==
    IF resolve_target(req.target, osIfaces).ok
    THEN resolve_target(req.target, osIfaces).val
    ELSE [name |-> "none"]

\* The target handed to platform::apply_one for every operation.
DispatchTarget == Unwrap(target)

\* Results collected newest first.
PushResult_Front(rs, r) == <<r>> \o rs

\* results.push(..)
PushResult(rs, r) == Append(rs, r)

\* all_ok following the latest result alone.
NextAllOk_LastOnly(all, r) == r.ok

\* all_ok after a result: cleared on an error, kept otherwise.
NextAllOk(all, r) == IF r.ok THEN all ELSE FALSE

\* One iteration: validate_op(&op).and_then(|_| platform::apply_one(&target, &op)).
ValidateAndDispatch ==
    /\ pc = "ValidateAndDispatch"
    /\ ~LoopDone
    /\ LET i  == k
           op == req.ops[k + 1]
           v  == validate_op(op)
       IN  /\ validated' = Append(validated, i)
           /\ \E o \in (IF v.ok THEN PlatformOutcomes ELSE {"not_called"}) :
                LET r == IF v.ok THEN apply_one(DispatchTarget, op, o) ELSE v IN
                /\ dispatched' =
                       IF v.ok
                       THEN Append(dispatched,
                                   [i |-> i, target |-> DispatchTarget,
                                    os_has_target |-> DispatchTarget.name \in Names(osIfaces)])
                       ELSE dispatched
                /\ results' = PushResult(results,
                                  NetIfOpResult(i, r.ok, IF r.ok THEN None ELSE Some(r.err)))
                /\ all_ok' = NextAllOk(all_ok, r)
           /\ k' = k + 1
    /\ UNCHANGED <<pc, input, osIfaces, ifaces, target, out, ret,
                   enumCalls, resolveCalls, vin, vout, parseCalls, linuxVars, memVars>>

\* Ok(NetIfApplyResponse { .. }), serialized and written out; the call returns 0.
Finish ==
    /\ pc = "ValidateAndDispatch"
    /\ LoopDone
    /\ out' = Some(JsonApplyResponse(NetIfApplyResponse(NETIF_ABI_VERSION, all_ok, results)))
    /\ ret' = Some(0)
    /\ pc' = "Done"
    /\ UNCHANGED <<input, osIfaces, ifaces, target, k, results, all_ok,
                   enumCalls, resolveCalls, validated, dispatched, vin, vout,
                   parseCalls, linuxVars, memVars>>

\* The call has returned: its locals are gone, the caller has the payload.
Return ==
    /\ pc = "Done"
    /\ pc' = "Idle"
    /\ input' = [kind |-> "none", req |-> None]
    /\ ifaces' = None
    /\ target' = None
    /\ k' = 0
    /\ results' = <<>>
    /\ all_ok' = TRUE
    /\ out' = None
    /\ ret' = None
    /\ enumCalls' = 0
    /\ resolveCalls' = 0
    /\ validated' = <<>>
    /\ dispatched' = <<>>
    /\ parseCalls' = 0
    /\ UNCHANGED <<osIfaces, vin, vout, linuxVars, memVars>>

\* The operating system's interfaces change while the engine is not looking.
OsChange ==
    /\ osIfaces' \in OsIfaceLists \ {osIfaces}
    /\ UNCHANGED <<pc, input, ifaces, target, k, results, all_ok, out, ret,
                   enumCalls, resolveCalls, validated, dispatched, vin, vout,
                   parseCalls, linuxVars, memVars>>

\* No apply call in progress.
NoCall ==
    /\ pc = "Idle"
    /\ input = [kind |-> "none", req |-> None]
    /\ ifaces = None
    /\ target = None
    /\ k = 0
    /\ results = <<>>
    /\ all_ok = TRUE
    /\ out = None
    /\ ret = None
    /\ enumCalls = 0
    /\ resolveCalls = 0
    /\ validated = <<>>
    /\ dispatched = <<>>
    /\ parseCalls = 0

\* A fresh process on a host with the connection manager installed.
FreshProcess ==
    /\ CACHED = None
    /\ osNmcli = TRUE
    /\ lastList = None

\* Nothing has crossed the C boundary yet.
NoBuffers ==
    /\ heap = {}
    /\ held = {}
    /\ handed = 0
    /\ released = 0
    /\ lost = 0
    /\ crashed = FALSE
    /\ last = [fn |-> "none"]

Init ==
    /\ NoCall
    /\ FreshProcess
    /\ NoBuffers
    /\ osIfaces \in OsIfaceLists
    /\ vin = None
    /\ vout = None

Next ==
    \/ Call
    \/ Start
    \/ ResolveTarget
    \/ ValidateAndDispatch
    \/ Finish
    \/ Return
    \/ OsChange

Spec == Init /\ [][Next]_vars

\* An engine that gives up on a child process that does not exit, and returns.
BlockedIn_TimedOut(at) == "Done"

\* Command::output() on a child process that never exits: the call stays in it.
BlockedIn(at) == "Hung"

\* The call is inside Command::output(): in list_interfaces(), or in
\* platform::apply_one for an operation that passed validate_op.
InTool ==
    \/ pc = "ResolveTarget"
    \/ /\ pc = "ValidateAndDispatch"
       /\ ~LoopDone
       /\ validate_op(req.ops[k + 1]).ok

\* The OS tool the call is waiting for never returns.
ToolHangs ==
    /\ InTool
    /\ pc' = BlockedIn(pc)
    /\ UNCHANGED <<input, osIfaces, ifaces, target, k, results, all_ok, out, ret,
                   enumCalls, resolveCalls, validated, dispatched, vin, vout,
                   parseCalls, linuxVars, memVars>>

\* Calls of every kind of ending: no output pointer, a foreign abi, an
\* interface that is not there, and batches with valid and invalid operations.
LiveInputs ==
    {[kind |-> kd, req |-> None] : kd \in {"null_out", "zero_len", "bad_json"}}
    \cup {[kind |-> "request", req |-> Some(NetIfApplyRequest(a, t, o))] :
            a \in AbiValues,
            t \in {IfaceSelector(None, Some("eth0")), IfaceSelector(Some(9), None)},
            o \in {<<>>, <<SetAdminState(TRUE)>>, <<SetMtu(0), SetAdminState(TRUE)>>,
                   <<SetIpv4Dhcp(TRUE), SetMtu(0)>>}}

LiveCall == CallWith(LiveInputs)

\* The steps tool_netif_apply_json takes by itself once it is called.
EngineStep == Start \/ ResolveTarget \/ ValidateAndDispatch \/ Finish

NextLive ==
    \/ LiveCall
    \/ Start
    \/ ResolveTarget
    \/ ValidateAndDispatch
    \/ Finish
    \/ Return
    \/ OsChange
    \/ ToolHangs

\* The engine is synchronous code on the caller's thread: a call that can take
\* its next step takes it. Nothing obliges a tool to hang, the caller to call
\* again or the OS to change.
SpecLive == Init /\ [][NextLive]_vars /\ WF_vars(EngineStep)

----------------------------------------------------------------------------
(* The validator alone: validate_op applied to one operation *)

PrefixLens == {0, 1, 24, 32, 33, 64, 128, 129, 255}

MtuValues == {0, 1, 1500}

Gateways == {None, Some(IP_V4_PLAIN), Some(IP_V6_LOOPBACK), Some(IP_V4_OCTET_256),
             Some(IP_EMPTY)}

ValidateInputs ==
    {SetAdminState(u) : u \in BOOLEAN}
    \cup {SetMtu(m) : m \in MtuValues}
    \cup {AddIp(a, l) : a \in IpStrings, l \in PrefixLens}
    \cup {DelIp(a, l) : a \in IpStrings, l \in PrefixLens}
    \cup {SetIpv4Dhcp(e) : e \in BOOLEAN}
    \cup {SetIpv4Static(a, l, g) : a \in IpStrings, l \in PrefixLens, g \in Gateways}

InitValidate ==
    /\ NoCall
    /\ FreshProcess
    /\ NoBuffers
    /\ osIfaces = OsWithEth0
    /\ vin \in ValidateInputs
    /\ vout = None

Validate ==
    /\ vout = None
    /\ vout' = Some(validate_op(vin))
    /\ UNCHANGED <<pc, input, osIfaces, ifaces, target, k, results, all_ok, out, ret,
                   enumCalls, resolveCalls, validated, dispatched, vin,
                   parseCalls, linuxVars, memVars>>

NextValidate == Validate

SpecValidate == InitValidate /\ [][NextValidate]_vars

----------------------------------------------------------------------------
(* The resolver alone: resolve_target applied to a selector and an interface list *)

MaxIfaces == 2

IfacePool == {NetInterface(i, n) : i \in {0, 1, 2}, n \in {"lo", "eth0", "eth1"}}

\* Lists an enumeration can return: names are unique, and so are nonzero indices
\* (an index of 0 is what a platform without stable indices reports for all).
WellFormed(ifs) ==
    \A a, b \in 1..Len(ifs) :
        a # b => /\ ifs[a].name # ifs[b].name
                 /\ (ifs[a].if_index # 0 => ifs[a].if_index # ifs[b].if_index)

IfaceLists == {l \in SeqsUpTo(IfacePool, MaxIfaces) : WellFormed(l)}

ResolveSelectors ==
    {IfaceSelector(i, n) : i \in {None, Some(0), Some(1), Some(2), Some(9)},
                           n \in {None, Some("lo"), Some("eth0"), Some("wlan9")}}

ResolveInputs == {[sel |-> sl, ifs |-> l] : sl \in ResolveSelectors, l \in IfaceLists}

InitResolve ==
    /\ NoCall
    /\ FreshProcess
    /\ NoBuffers
    /\ osIfaces = OsWithEth0
    /\ vin \in ResolveInputs
    /\ vout = None

Resolve ==
    /\ vout = None
    /\ vout' = Some(resolve_target(vin.sel, vin.ifs))
    /\ UNCHANGED <<pc, input, osIfaces, ifaces, target, k, results, all_ok, out, ret,
                   enumCalls, resolveCalls, validated, dispatched, vin,
                   parseCalls, linuxVars, memVars>>

NextResolve == Resolve

SpecResolve == InitResolve /\ [][NextResolve]_vars

----------------------------------------------------------------------------
(* The C boundary as one call per step: tool_netif_list_json,              *)
(* tool_netif_apply_json and tool_free, and the buffers they hand over     *)

MaxCalls == 2

\* serde_json::to_vec writes into Vec::with_capacity(128).
TO_VEC_INITIAL_CAPACITY == 128

\* b"{\"ok\":false}".len()
FALLBACK_LEN == 12

\* Vec<u8>: what it holds, its length and the size of its allocation.
Vec(bytes, len, cap) == [bytes |-> bytes, len |-> len, cap |-> cap]

\* The capacity of a Vec<u8> that started at `cap` and was grown, by doubling,
\* until n bytes fitted.
RECURSIVE GrownCapacity(_, _)
GrownCapacity(cap, n) == IF n <= cap THEN cap ELSE GrownCapacity(2 * cap, n)

\* serde_json::to_vec(&v), where v serializes to n bytes.
to_vec(v, n) == Ok(Vec(v, n, GrownCapacity(TO_VEC_INITIAL_CAPACITY, n)))

\* <[u8]>::to_vec(): an allocation of exactly the slice's length.
slice_to_vec(v, n) == Vec(v, n, n)

\* Result::unwrap_or_else
unwrap_or_else(r, dflt) == IF r.ok THEN r.val ELSE dflt

\* b"{\"ok\":false}"
FallbackPayload == [ok |-> FALSE]

\* An error buffer that says no more than that the call failed.
write_error_out_buf_Bare(e, n) == to_vec([abi |-> ABI_VERSION, ok |-> FALSE], n).val

\* The buffer write_error_out hands to write_out.
write_error_out_buf(e, n) ==
    unwrap_or_else(to_vec(write_error_out(e), n), slice_to_vec(FallbackPayload, FALLBACK_LEN))

\* Serialized sizes just below, at and above to_vec's initial capacity (the
\* size depends on names and message texts, which the model does not spell out).
SerializedLens == {TO_VEC_INITIAL_CAPACITY - 1, TO_VEC_INITIAL_CAPACITY,
                   TO_VEC_INITIAL_CAPACITY + 1}

\* platform_linux::map_iface: the interface with its capabilities.
map_iface(i, can_set_dhcp) ==
    [if_index |-> i.if_index, name |-> i.name, can_set_dhcp |-> can_set_dhcp]

\* platform_linux::list_interfaces(): `ip -j address`, each entry through map_iface.
list_interfaces_linux(outcome, os, cached, nmcli) ==
    IF outcome = "ok"
    THEN Ok([j \in 1..Len(os) |-> map_iface(os[j], nmcli_available(cached, nmcli))])
    ELSE list_interfaces(outcome, os)

\* NetIfListResponse { abi, items }
NetIfListResponse(abi, items) == [abi |-> abi, items |-> items]

\* list_json_bytes(), given what list_interfaces() returned.
list_json_bytes(listed, n) ==
    IF listed.ok THEN to_vec(NetIfListResponse(NETIF_ABI_VERSION, listed.val), n) ELSE listed

\* A result slot: NetIfOpResult { i, ok, error }.
OpResultOf(i, r) == NetIfOpResult(i, r.ok, IF r.ok THEN None ELSE Some(r.err))

\* validate_op(&op).and_then(|_| platform::apply_one(&target, &op)), as a result slot.
OpResult(i, v, op, tgt, outcome) ==
    OpResultOf(i, IF v.ok THEN apply_one(tgt, op, outcome) ELSE v)

\* all_ok at the end of the loop.
AllOk(rs) == \A j \in 1..Len(rs) : rs[j].ok

\* Ok(NetIfApplyResponse { abi: NETIF_ABI_VERSION, ok: all_ok, results })
ApplyResponseOf(rs) == Ok(NetIfApplyResponse(NETIF_ABI_VERSION, AllOk(rs), rs))

\* An engine that answers from the interface table it saw at the previous
\* enumeration, when there was one.
Queried_Remembered(os, prev) == IF IsSome(prev) THEN Unwrap(prev).os[1] ELSE os

\* The interface table an enumeration reads: platform::list_interfaces() runs
\* the OS utility at every call.
Queried(os, prev) == os

\* The part of apply_request's loop that handles the first n operations: the
\* results, given how platform::apply_one ends for each position.
RECURSIVE run_ops(_, _, _, _)
run_ops(ops, tgt, outs, n) ==
    IF n = 0 THEN <<>>
    ELSE Append(run_ops(ops, tgt, outs, n - 1),
                OpResult(n - 1, validate_op(ops[n]), ops[n], tgt, outs[n]))

\* An apply_request that fails as a whole when one of its operations failed.
apply_resolved_FailOnOpError(r, t, outs) ==
    IF ~t.ok THEN t
    ELSE IF ~AllOk(run_ops(r.ops, t.val, outs, Len(r.ops)))
    THEN Err(system_error("operation_failed"))
    ELSE ApplyResponseOf(run_ops(r.ops, t.val, outs, Len(r.ops)))

\* apply_request past enumeration, given what resolve_target returned.
apply_resolved(r, t, outs) ==
    IF ~t.ok THEN t ELSE ApplyResponseOf(run_ops(r.ops, t.val, outs, Len(r.ops)))

\* apply_request past the abi check, given what list_interfaces() returned.
apply_listed(r, listed, outs) ==
    IF ~listed.ok THEN listed
    ELSE apply_resolved(r, resolve_target(r.target, listed.val), outs)

\* apply_request(req)
apply_request(r, listed, outs) ==
    IF AbiMismatch(r) THEN Err(invalid_argument("abi_mismatch"))
    ELSE apply_listed(r, listed, outs)

\* serde_json::to_vec(&resp) of apply_json_bytes, given what apply_request returned.
apply_serialized(resp, n) ==
    IF resp.ok THEN to_vec(JsonApplyResponse(resp.val), n) ELSE resp

\* apply_json_bytes(req_json), given what from_str returned.
apply_json_bytes(parsed, listed, outs, n) ==
    IF ~parsed.ok THEN parsed
    ELSE apply_serialized(apply_request(parsed.val, listed, outs), n)

\* Whether apply_json_bytes gets as far as list_interfaces() for this input.
Enumerates(inp) == Decoded(inp.kind) /\ from_str(inp).ok /\ ~AbiMismatch(from_str(inp).val)

\* The requests put to the one-step boundary.
BoundaryRequests ==
    {NetIfApplyRequest(a, t, o) :
        a \in AbiValues,
        t \in {IfaceSelector(None, Some("wlan9")), IfaceSelector(None, Some("eth0"))},
        o \in {<<>>, <<SetAdminState(TRUE)>>, <<SetMtu(0), SetAdminState(TRUE)>>}}

BoundaryInputs ==
    {[kind |-> kd, req |-> None] :
         kd \in {"null_out", "null_req", "zero_len", "non_utf8", "bad_json"}}
    \cup {[kind |-> "request", req |-> Some(r)] : r \in BoundaryRequests}

\* How the OS enumeration utility can end for this input: it is run only if
\* the call gets that far.
EnumOutcomesFor(inp) == IF Enumerates(inp) THEN EnumOutcomes ELSE {"not_run"}

\* How platform::apply_one ends, per position of the batch, for this input.
BoundaryOutcomes(inp) ==
    IF inp.kind = "request"
    THEN [1..Len(Unwrap(inp.req).ops) -> {"Ok", "SystemError"}]
    ELSE {<<>>}

Addrs == 1..MaxCalls

LiveAddrs == {a.addr : a \in heap}

\* write_out(out_ptr, out_len, buf): the Vec is forgotten, its pointer and
\* length are written out; its capacity is not kept anywhere.
write_out(fn, inp, res, buf) ==
    /\ handed < MaxCalls
    /\ \E a \in Addrs \ LiveAddrs :
        /\ heap' = heap \cup {[addr |-> a, cap |-> buf.cap]}
        /\ held' = held \cup {[ptr |-> a, len |-> buf.len]}
        /\ last' = [fn |-> fn, input |-> inp, failed |-> ~res.ok,
                    ret |-> IF res.ok THEN 0 ELSE as_i32(res.err.code),
                    out |-> Some([ptr |-> a, len |-> buf.len]),
                    payload |-> Some(buf.bytes)]
    /\ handed' = handed + 1
    /\ UNCHANGED <<released, lost, crashed>>

\* if out_ptr.is_null() || out_len.is_null() { return ErrorCode::InvalidArgument.as_i32(); }
null_out_return(fn, inp) ==
    /\ last' = [fn |-> fn, input |-> inp, failed |-> TRUE,
                ret |-> as_i32("InvalidArgument"), out |-> None, payload |-> None]
    /\ UNCHANGED <<heap, held, handed, released, lost, crashed>>

\* match .. { Ok(buf) => { write_out(.., buf); 0 } Err(e) => { write_error_out(.., &e); e.code.as_i32() } }
deliver(fn, inp, res, n) ==
    write_out(fn, inp, res, IF res.ok THEN res.val ELSE write_error_out_buf(res.err, n))

ListInput(kind) == [kind |-> kind, req |-> None]

\* list_interfaces() as this call gets it, the OS utility ending as `o`.
ListedNow(o) == list_interfaces_linux(o, Queried(osIfaces, lastList), CACHED, osNmcli)

\* History of an enumeration: the call that made it, what it returned, the
\* OS it was made on, and the same of the enumeration before it.
Enumeration(by, res) ==
    [by |-> by, listed |-> res, os |-> <<osIfaces, osNmcli>>,
     prev |-> IF IsSome(lastList)
              THEN Some([by |-> Unwrap(lastList).by, listed |-> Unwrap(lastList).listed,
                         os |-> Unwrap(lastList).os])
              ELSE None]

\* tool_netif_list_json, its payload being of one of the lengths `Lens`.
list_json(Lens) ==
    /\ pc = "Idle"
    /\ ~crashed
    /\ \E out_null \in BOOLEAN :
       \E o \in (IF out_null THEN {"not_run"} ELSE EnumOutcomes),
          n \in (IF out_null THEN {0} ELSE Lens) :
        IF out_null
        THEN /\ null_out_return("list", ListInput("null_out"))
             /\ UNCHANGED <<CACHED, lastList>>
        ELSE /\ deliver("list", ListInput("list"),
                        list_json_bytes(ListedNow(o), n), n)
             /\ CACHED' = CachedAfterList(ListedNow(o), CACHED, osNmcli)
             /\ lastList' = Some(Enumeration("list", ListedNow(o)))
    /\ UNCHANGED <<pc, input, osIfaces, ifaces, target, k, results, all_ok, out, ret,
                   enumCalls, resolveCalls, validated, dispatched, vin, vout,
                   parseCalls, osNmcli>>

tool_netif_list_json == list_json(SerializedLens)

\* tool_netif_apply_json, given one of `Ins`, its payload being of one of the lengths `Lens`.
apply_json(Ins, Lens) ==
    /\ pc = "Idle"
    /\ ~crashed
    /\ \E inp \in Ins, n \in Lens :
       \E o \in EnumOutcomesFor(inp), outs \in BoundaryOutcomes(inp) :
        /\ IF inp.kind = "null_out"
           THEN null_out_return("apply", inp)
           ELSE IF EmptyRequest(inp.kind)
           THEN deliver("apply", inp, Err(invalid_argument("request_empty")), n)
           ELSE IF inp.kind = "non_utf8"
           THEN deliver("apply", inp, Err(invalid_argument("request_not_utf8")), n)
           ELSE deliver("apply", inp, apply_json_bytes(from_str(inp), ListedNow(o), outs, n), n)
        /\ CACHED' = IF Enumerates(inp)
                     THEN CachedAfterList(ListedNow(o), CACHED, osNmcli)
                     ELSE CACHED
        /\ lastList' = IF Enumerates(inp)
                       THEN Some(Enumeration("apply", ListedNow(o)))
                       ELSE lastList
    /\ UNCHANGED <<pc, input, osIfaces, ifaces, target, k, results, all_ok, out, ret,
                   enumCalls, resolveCalls, validated, dispatched, vin, vout,
                   parseCalls, osNmcli>>

tool_netif_apply_json == apply_json(BoundaryInputs, SerializedLens)

\* The allocation a held pointer points into.
AllocAt(ptr) == CHOOSE a \in heap : a.addr = ptr

\* What deallocating `cap` bytes as `size` bytes can do: with the sizes equal the
\* allocation is released; otherwise the allocator may go by its own
\* bookkeeping, may take back `size` bytes only, or may abort the process.
DeallocOutcomes(cap, size) ==
    IF cap = size THEN {"released"} ELSE {"size_ignored", "size_trusted", "abort"}

\* drop(Vec::from_raw_parts(ptr, len, len)): the capacity the rebuilt Vec claims.
FreeCapacity(len, cap) == len

tool_free ==
    /\ pc = "Idle"
    /\ ~crashed
    /\ \/ /\ last' = [fn |-> "free", ptr |-> 0]
          /\ UNCHANGED <<heap, held, handed, released, lost, crashed>>
       \/ \E b \in held :
          \E how \in DeallocOutcomes(AllocAt(b.ptr).cap, FreeCapacity(b.len, AllocAt(b.ptr).cap)) :
            /\ held' = held \ {b}
            /\ heap' = IF how = "abort" THEN heap ELSE heap \ {AllocAt(b.ptr)}
            /\ released' = IF how = "abort" THEN released ELSE released + 1
            /\ lost' = IF how = "size_trusted"
                       THEN lost + (AllocAt(b.ptr).cap - FreeCapacity(b.len, AllocAt(b.ptr).cap))
                       ELSE lost
            /\ crashed' = (how = "abort")
            /\ last' = [fn |-> "free", ptr |-> b.ptr, len |-> b.len,
                        cap |-> AllocAt(b.ptr).cap,
                        size |-> FreeCapacity(b.len, AllocAt(b.ptr).cap), how |-> how]
            /\ UNCHANGED handed
    /\ UNCHANGED <<pc, input, osIfaces, ifaces, target, k, results, all_ok, out, ret,
                   enumCalls, resolveCalls, validated, dispatched, vin, vout,
                   parseCalls, linuxVars>>

InitBoundary ==
    /\ NoCall
    /\ FreshProcess
    /\ NoBuffers
    /\ osIfaces = OsWithEth0
    /\ vin = None
    /\ vout = None

NextBoundary ==
    \/ tool_netif_list_json
    \/ tool_netif_apply_json
    \/ tool_free

SpecBoundary == InitBoundary /\ [][NextBoundary]_vars

\* nmcli is installed or removed while the engine is not looking.
NmcliChange ==
    /\ osNmcli' = ~osNmcli
    /\ UNCHANGED <<pc, input, osIfaces, ifaces, target, k, results, all_ok, out, ret,
                   enumCalls, resolveCalls, validated, dispatched, vin, vout,
                   parseCalls, CACHED, lastList, memVars>>

\* The calls repeated across a changing system: one short payload length, a
\* call without an output pointer, one with a foreign abi, and batches for an
\* interface that is there on some systems and not on others.
EnumInputs ==
    {[kind |-> "null_out", req |-> None]}
    \cup {[kind |-> "request", req |-> Some(NetIfApplyRequest(a, IfaceSelector(None, Some("eth0")), o))] :
            a \in AbiValues, o \in {<<>>, <<SetAdminState(TRUE)>>}}

EnumList == list_json({TO_VEC_INITIAL_CAPACITY - 1})

EnumApply == apply_json(EnumInputs, {TO_VEC_INITIAL_CAPACITY - 1})

NextEnum ==
    \/ EnumList
    \/ EnumApply
    \/ OsChange
    \/ NmcliChange

\* The C boundary called again and again on a system that changes between calls.
SpecEnum == InitBoundary /\ [][NextEnum]_vars

----------------------------------------------------------------------------
(* The platform layers: list_interfaces and apply_one of platform_linux,   *)
(* platform_macos and platform_windows, as functions of what the OS tools  *)
(* they run come to                                                        *)

\* Command::new(program).args(args)
Command(program, args) == [program |-> program, args |-> args]

\* Command::output(): the tool could not be started, or it ran and exited,
\* successfully or not, having printed stdout and stderr.
Run(spawned, success, stdout, stderr) ==
    [spawned |-> spawned, success |-> success, stdout |-> stdout, stderr |-> stderr]

\* A tool that printed nothing.
NoOutput == [text |-> ""]

NotStarted == Run(FALSE, FALSE, NoOutput, {})

\* What one apply_one call did: its result, the configuration-changing
\* commands it invoked and the read-only invocations it made, in order.
Outcome(res, cmds, queries) == [res |-> res, cmds |-> cmds, queries |-> queries]

\* The first of the n commands that fails, `done` commands having run before
\* them and `fails` being the positions (over the whole call) that fail; 0 if none.
FirstFailing(n, done, fails) ==
    IF {j \in 1..n : done + j \in fails} = {} THEN 0
    ELSE CHOOSE j \in 1..n : done + j \in fails /\ \A h \in 1..(j - 1) : done + h \notin fails

\* Commands joined by `?`, stopped at the f-th, which fails (run_checked,
\* nmcli_checked: a tool that cannot be started or exits nonzero is SystemError).
run_upto(plan, f, queries) ==
    IF f = 0 THEN Outcome(Ok("unit"), plan, queries)
    ELSE Outcome(Err(system_error("command_failed")), SubSeq(plan, 1, f), queries)

run_all(plan, done, fails, queries) ==
    run_upto(plan, FirstFailing(Len(plan), done, fails), queries)

\* An outcome with the commands `before` invoked ahead of it.
after_cmds(before, o) == Outcome(o.res, before \o o.cmds, o.queries)

\* --- Linux ---

\* serde_json::from_slice::<Vec<IpIface>>(&out.stdout): the output must be a
\* JSON array whose entries all carry ifindex and ifname.
ParsesAsIpIfaces(stdout) ==
    /\ stdout.json
    /\ stdout.array
    /\ \A j \in 1..Len(stdout.entries) :
          {"ifindex", "ifname"} \subseteq DOMAIN stdout.entries[j]

\* How a run of `ip -j address` ends for platform_linux::list_interfaces.
EnumOutcome(run) ==
    IF ~run.spawned THEN "cannot_invoke"
    ELSE IF ~run.success THEN "exit_nonzero"
    ELSE IF ~ParsesAsIpIfaces(run.stdout) THEN "unparsable"
    ELSE "ok"

\* The interfaces `ip -j address` printed.
IpIfaces(stdout) ==
    [j \in 1..Len(stdout.entries) |->
        NetInterface(stdout.entries[j].ifindex, stdout.entries[j].ifname)]

list_interfaces_linux_run(run, cached, nmcli) ==
    list_interfaces_linux(EnumOutcome(run),
                          IF EnumOutcome(run) = "ok" THEN IpIfaces(run.stdout) ELSE <<>>,
                          cached, nmcli)

\* The `nmcli -v` run of nmcli_available(), made only while CACHED is empty.
detect(env) == IF env.cached = None THEN <<Command("nmcli", <<"-v">>)>> ELSE <<>>

\* text.lines().next().unwrap_or("").splitn(2, ':').nth(1).unwrap_or(""), the
\* line being given as its pieces around the first ':'.
ConnectionOf(line) == IF Len(line) >= 2 THEN line[2] ELSE ""

\* if v.is_empty() || v == "--" { Ok(None) } else { Ok(Some(v)) }
ConnectionOption(v) == IF v = "" \/ v = "--" THEN None ELSE Some(v)

nmcli_dev_show(dev) ==
    Command("nmcli", <<"-t", "-f", "GENERAL.CONNECTION", "dev", "show", dev>>)

\* nmcli_connection_for_dev(dev): the Result and the invocations made for it.
nmcli_connection_for_dev(dev, env) ==
    IF ~nmcli_available(env.cached, env.nmcli)
    THEN Outcome(Ok(None), <<>>, detect(env))
    ELSE IF ~env.show.spawned
    THEN Outcome(Err(system_error("nmcli_not_started")), <<>>,
                 detect(env) \o <<nmcli_dev_show(dev)>>)
    ELSE IF ~env.show.success
    THEN Outcome(Err(system_error("nmcli_query_failed")), <<>>,
                 detect(env) \o <<nmcli_dev_show(dev)>>)
    ELSE Outcome(Ok(ConnectionOption(ConnectionOf(env.show.stdout.line))), <<>>,
                 detect(env) \o <<nmcli_dev_show(dev)>>)

\* format!("{ip}/{prefix_len}")
Cidr(ip, prefix_len) == <<ip, prefix_len>>

ip_cmd(args) == Command("ip", args)

nmcli_cmd(args) == Command("nmcli", args)

con_up(conn) == nmcli_cmd(<<"con", "up", "id", conn>>)

con_mod(conn, settings) == nmcli_cmd(<<"con", "mod", "id", conn>> \o settings)

\* e.contains("ipv4.addresses") && e.contains(<not allowed>), the message of a
\* failed nmcli_try being given as the set of phrases it contains.
IsNotAllowed(stderr) == {"ipv4.addresses", "not_allowed"} \subseteq stderr

\* AddIp that changes the runtime address directly whatever manages the device.
linux_add_ip_Direct(t, op, env, c) ==
    IF ~c.res.ok THEN c
    ELSE run_all(<<ip_cmd(<<"addr", "add", Cidr(op.ip, op.prefix_len), "dev", t.name>>)>>,
                 0, env.fails, c.queries)

linux_add_ip(t, op, env, c) ==
    IF ~c.res.ok THEN c
    ELSE IF IsSome(c.res.val)
    THEN run_all(<<con_mod(Unwrap(c.res.val),
                           <<"ipv4.method", "manual", "+ipv4.addresses",
                             Cidr(op.ip, op.prefix_len)>>),
                   con_up(Unwrap(c.res.val))>>,
                 0, env.fails, c.queries)
    ELSE run_all(<<ip_cmd(<<"addr", "add", Cidr(op.ip, op.prefix_len), "dev", t.name>>)>>,
                 0, env.fails, c.queries)

linux_del_ip_managed(conn, op, env, queries) ==
    IF 1 \notin env.fails
    THEN run_all(<<con_mod(conn, <<"-ipv4.addresses", Cidr(op.ip, op.prefix_len)>>),
                   con_up(conn)>>,
                 0, env.fails, queries)
    ELSE IF IsNotAllowed(env.try_err)
    THEN after_cmds(<<con_mod(conn, <<"-ipv4.addresses", Cidr(op.ip, op.prefix_len)>>)>>,
                    run_all(<<con_mod(conn, <<"ipv4.method", "auto", "ipv4.addresses", "",
                                              "ipv4.gateway", "">>),
                              con_up(conn)>>,
                            1, env.fails, queries))
    ELSE Outcome(Err(system_error("nmcli_failed")),
                 <<con_mod(conn, <<"-ipv4.addresses", Cidr(op.ip, op.prefix_len)>>)>>,
                 queries)

linux_del_ip(t, op, env, c) ==
    IF ~c.res.ok THEN c
    ELSE IF IsSome(c.res.val)
    THEN linux_del_ip_managed(Unwrap(c.res.val), op, env, c.queries)
    ELSE run_all(<<ip_cmd(<<"addr", "del", Cidr(op.ip, op.prefix_len), "dev", t.name>>)>>,
                 0, env.fails, c.queries)

\* s.starts_with(prefix)
starts_with(s, prefix) == Len(s) >= Len(prefix) /\ SubSeq(s, 1, Len(prefix)) = prefix

LINK_LOCAL_PREFIX == <<"1", "6", "9", ".", "2", "5", "4", ".">>

\* The address loop without its filters: the first entry that is IPv4.
FirstInetCidr(infos) ==
    IF SelectSeq(infos, LAMBDA a : a.family = "inet") = <<>> THEN None
    ELSE Some(Cidr(Head(SelectSeq(infos, LAMBDA a : a.family = "inet")).local,
                   Head(SelectSeq(infos, LAMBDA a : a.family = "inet")).prefixlen))

\* The loop of current_ipv4_cidr_for_dev over addr_info: the first entry of
\* family inet with an address that is not empty and not 169.254.*, and a
\* prefix length in 1..=32.
RECURSIVE FirstUsableCidr(_)
FirstUsableCidr(infos) ==
    IF infos = <<>> THEN None
    ELSE IF \/ Head(infos).family # "inet"
            \/ Head(infos).local = <<>>
            \/ starts_with(Head(infos).local, LINK_LOCAL_PREFIX)
            \/ Head(infos).prefixlen = 0
            \/ Head(infos).prefixlen > 32
    THEN FirstUsableCidr(Tail(infos))
    ELSE Some(Cidr(Head(infos).local, Head(infos).prefixlen))

\* current_ipv4_cidr_for_dev(dev), given how `ip -j address show dev <dev>` ran.
current_ipv4_cidr_for_dev(run) ==
    IF ~run.spawned THEN Err(system_error("ip_not_started"))
    ELSE IF ~run.success THEN Err(system_error("ip_address_failed"))
    ELSE IF ~run.stdout.json THEN Err(system_error("ip_json_unparsable"))
    ELSE IF ~run.stdout.array \/ run.stdout.entries = <<>> THEN Ok(None)
    ELSE IF "addr_info" \notin DOMAIN run.stdout.entries[1] THEN Ok(None)
    ELSE Ok(FirstUsableCidr(run.stdout.entries[1].addr_info))

\* The loop of current_ipv4_gateway_for_dev: the first route with a gateway.
RECURSIVE FirstGateway(_)
FirstGateway(routes) ==
    IF routes = <<>> THEN None
    ELSE IF "gateway" \notin DOMAIN Head(routes) \/ Head(routes).gateway = <<>>
    THEN FirstGateway(Tail(routes))
    ELSE Some(Head(routes).gateway)

\* current_ipv4_gateway_for_dev(dev), given how `ip -j route show default dev <dev>` ran.
current_ipv4_gateway_for_dev(run) ==
    IF ~run.spawned THEN Err(system_error("ip_not_started"))
    ELSE IF ~run.success THEN Err(system_error("ip_route_failed"))
    ELSE IF ~run.stdout.json THEN Err(system_error("ip_json_unparsable"))
    ELSE IF ~run.stdout.array THEN Ok(None)
    ELSE Ok(FirstGateway(run.stdout.entries))

ip_addr_show(dev) == ip_cmd(<<"-j", "address", "show", "dev", dev>>)

ip_route_show(dev) == ip_cmd(<<"-j", "route", "show", "default", "dev", dev>>)

\* The end of SetIpv4Dhcp { enable: false }, past the two profile edits `edits`
\* and the gateway query that returned `gw`.
linux_dhcp_off_gateway(t, conn, env, edits, gw, queries) ==
    IF ~edits.res.ok THEN edits
    ELSE IF ~gw.ok
    THEN Outcome(gw, edits.cmds, queries \o <<ip_route_show(t.name)>>)
    ELSE IF IsSome(gw.val)
    THEN after_cmds(edits.cmds,
                    run_all(<<con_mod(conn, <<"ipv4.gateway", Unwrap(gw.val)>>),
                              con_up(conn)>>,
                            2, env.fails, queries \o <<ip_route_show(t.name)>>))
    ELSE after_cmds(edits.cmds,
                    run_all(<<con_up(conn)>>, 2, env.fails,
                            queries \o <<ip_route_show(t.name)>>))

\* SetIpv4Dhcp { enable: false }, the address query having returned `addr`.
linux_dhcp_off(t, conn, env, addr, queries) ==
    IF ~addr.ok
    THEN Outcome(addr, <<>>, queries \o <<ip_addr_show(t.name)>>)
    ELSE IF ~IsSome(addr.val)
    THEN Outcome(Err(invalid_argument("no_ipv4_address_to_keep")), <<>>,
                 queries \o <<ip_addr_show(t.name)>>)
    ELSE linux_dhcp_off_gateway(t, conn, env,
             run_all(<<con_mod(conn, <<"ipv4.method", "manual">>),
                       con_mod(conn, <<"ipv4.addresses", Unwrap(addr.val)>>)>>,
                     0, env.fails, queries \o <<ip_addr_show(t.name)>>),
             current_ipv4_gateway_for_dev(env.route),
             queries \o <<ip_addr_show(t.name)>>)

linux_set_ipv4_dhcp(t, op, env, c) ==
    IF ~c.res.ok THEN c
    ELSE IF ~IsSome(c.res.val)
    THEN Outcome(Err(unsupported("no_network_manager")), <<>>, c.queries)
    ELSE IF op.enable
    THEN run_all(<<con_mod(Unwrap(c.res.val), <<"ipv4.method", "auto">>),
                   con_mod(Unwrap(c.res.val), <<"ipv4.addresses", "">>),
                   con_up(Unwrap(c.res.val))>>,
                 0, env.fails, c.queries)
    ELSE linux_dhcp_off(t, Unwrap(c.res.val), env,
                        current_ipv4_cidr_for_dev(env.addr), c.queries)

\* gateway.as_deref(), and the "" that stands for an absent gateway in nmcli's arguments
GatewayArg(gateway) == IF IsSome(gateway) THEN Unwrap(gateway) ELSE ""

\* apply_runtime_static_ipv4: flush, add, and the default route if a gateway is given.
runtime_static_plan(dev, cidr, gateway) ==
    <<ip_cmd(<<"addr", "flush", "dev", dev, "scope", "global">>),
      ip_cmd(<<"addr", "add", cidr, "dev", dev>>)>>
    \o (IF IsSome(gateway) /\ Unwrap(gateway) # <<>>
        THEN <<ip_cmd(<<"route", "replace", "default", "via", Unwrap(gateway), "dev", dev>>)>>
        ELSE <<>>)

\* persist_systemd_networkd_static_ipv4, run after the runtime change `applied`.
persist_systemd_networkd_static_ipv4(env, applied) ==
    IF ~applied.res.ok THEN applied
    ELSE IF env.persist = "no_dir"
    THEN Outcome(Err(unsupported("no_systemd_networkd")), applied.cmds, applied.queries)
    ELSE IF env.persist = "denied"
    THEN Outcome(Err(permission_denied("write_denied")), applied.cmds, applied.queries)
    ELSE IF env.persist = "io_error"
    THEN Outcome(Err(system_error("write_failed")), applied.cmds, applied.queries)
    ELSE applied

linux_set_ipv4_static(t, op, env, c) ==
    IF ~c.res.ok THEN c
    ELSE IF IsSome(c.res.val)
    THEN run_all(<<con_mod(Unwrap(c.res.val),
                           <<"ipv4.method", "manual",
                             "ipv4.addresses", Cidr(op.ip, op.prefix_len),
                             "ipv4.gateway", GatewayArg(op.gateway)>>),
                   con_up(Unwrap(c.res.val))>>,
                 0, env.fails, c.queries)
    ELSE persist_systemd_networkd_static_ipv4(env,
             run_all(runtime_static_plan(t.name, Cidr(op.ip, op.prefix_len), op.gateway),
                     0, env.fails, c.queries))

\* platform_linux::apply_one
apply_one_linux(t, op, env) ==
    CASE op.op = "SetAdminState" ->
            run_all(<<ip_cmd(<<"link", "set", "dev", t.name,
                               IF op.up THEN "up" ELSE "down">>)>>, 0, env.fails, <<>>)
      [] op.op = "SetMtu" ->
            run_all(<<ip_cmd(<<"link", "set", "dev", t.name, "mtu", op.mtu>>)>>,
                    0, env.fails, <<>>)
      [] op.op = "AddIp" -> linux_add_ip(t, op, env, nmcli_connection_for_dev(t.name, env))
      [] op.op = "DelIp" -> linux_del_ip(t, op, env, nmcli_connection_for_dev(t.name, env))
      [] op.op = "SetIpv4Dhcp" ->
            linux_set_ipv4_dhcp(t, op, env, nmcli_connection_for_dev(t.name, env))
      [] op.op = "SetIpv4Static" ->
            linux_set_ipv4_static(t, op, env, nmcli_connection_for_dev(t.name, env))

\* --- macOS ---

\* parse_ifconfig_block: the name is what precedes the first ':' of the block's
\* first line (a line being given as its pieces around ':'); if_index is 0.
\* An ifconfig parser that numbers the interfaces it finds.
parse_ifconfig_block_Indexed(block) == Some(NetInterface(4, block[1][1]))

parse_ifconfig_block(block) == Some(NetInterface(0, block[1][1]))

\* parse_ifconfig: the output split at blank lines, empty blocks skipped.
RECURSIVE parse_ifconfig(_)
parse_ifconfig(blocks) ==
    IF blocks = <<>> THEN <<>>
    ELSE IF Head(blocks) = <<>> THEN parse_ifconfig(Tail(blocks))
    ELSE <<Unwrap(parse_ifconfig_block(Head(blocks)))>> \o parse_ifconfig(Tail(blocks))

\* platform_macos::list_interfaces
list_interfaces_macos(run) ==
    IF ~run.spawned THEN Err(unsupported("cannot_run_ifconfig"))
    ELSE IF ~run.success THEN Err(system_error("ifconfig_failed"))
    ELSE Ok(parse_ifconfig(run.stdout.blocks))

\* platform_macos::run_checked
macos_run_checked(cmd, run) ==
    Outcome(IF run.spawned /\ run.success THEN Ok("unit")
            ELSE Err(system_error("command_failed")),
            <<cmd>>, <<>>)

\* platform_macos::apply_ip
macos_apply_ip(t, op, verb, run) ==
    IF ParseIpAddr(op.ip) = "Err"
    THEN Outcome(Err(invalid_argument("bad_ip")), <<>>, <<>>)
    ELSE IF ParseIpAddr(op.ip) = "V4"
    THEN macos_run_checked(Command("ifconfig",
                                   <<t.name, "inet", Cidr(op.ip, op.prefix_len), verb>>), run)
    ELSE macos_run_checked(Command("ifconfig",
                                   <<t.name, "inet6", op.ip, "prefixlen", op.prefix_len, verb>>),
                           run)

\* platform_macos::apply_one
apply_one_macos(t, op, run) ==
    CASE op.op = "SetAdminState" ->
            macos_run_checked(Command("ifconfig", <<t.name, IF op.up THEN "up" ELSE "down">>),
                              run)
      [] op.op = "SetMtu" ->
            macos_run_checked(Command("ifconfig", <<t.name, "mtu", op.mtu>>), run)
      [] op.op = "AddIp" -> macos_apply_ip(t, op, "add", run)
      [] op.op = "DelIp" -> macos_apply_ip(t, op, "delete", run)
      [] op.op = "SetIpv4Dhcp" -> Outcome(Err(unsupported("macos_no_dhcp")), <<>>, <<>>)
      [] op.op = "SetIpv4Static" -> Outcome(Err(unsupported("macos_no_static")), <<>>, <<>>)

\* --- Windows ---

\* normalize_array(v.get(key)): an array gives its elements, a single object
\* gives itself, anything else (or no such key) gives nothing.
normalize_array(v, key) ==
    IF key \notin DOMAIN v THEN <<>>
    ELSE IF v[key].kind = "array" THEN v[key].items
    ELSE IF v[key].kind = "object" THEN <<v[key].item>>
    ELSE <<>>

\* it.get("ifIndex").and_then(Value::as_u64).unwrap_or(0)
IfIndexOf(it) == IF "ifIndex" \in DOMAIN it THEN it.ifIndex ELSE 0

\* it.get("Name").and_then(Value::as_str).unwrap_or("")
NameOf(it) == IF "Name" \in DOMAIN it THEN it.Name ELSE ""

\* The adapters loop: entries without an index or a name are skipped.
RECURSIVE windows_adapters(_)
windows_adapters(items) ==
    IF items = <<>> THEN <<>>
    ELSE IF IfIndexOf(Head(items)) = 0 \/ NameOf(Head(items)) = ""
    THEN windows_adapters(Tail(items))
    ELSE <<NetInterface(IfIndexOf(Head(items)), NameOf(Head(items)))>>
         \o windows_adapters(Tail(items))

\* run_powershell_capture
run_powershell_capture(run) ==
    IF ~run.spawned THEN Err(unsupported("cannot_run_powershell"))
    ELSE IF ~run.success THEN Err(system_error("powershell_failed"))
    ELSE Ok(run.stdout)

\* platform_windows::list_interfaces, given what run_powershell_capture returned.
windows_listed(text) ==
    IF ~text.ok THEN text
    ELSE IF ~text.val.json THEN Err(system_error("powershell_json_unparsable"))
    ELSE Ok(windows_adapters(normalize_array(text.val.value, "adapters")))

list_interfaces_windows(run) == windows_listed(run_powershell_capture(run))

\* map_windows_error(stderr), stderr being given as the set of phrases it contains.
map_windows_error(stderr) ==
    IF "access is denied" \in stderr THEN permission_denied("stderr")
    ELSE IF "no msft_netadapter objects" \in stderr \/ "cannot find" \in stderr
    THEN not_found("stderr")
    ELSE system_error("stderr")

\* run_powershell_checked
run_powershell_checked(script, run) ==
    Outcome(IF ~run.spawned THEN Err(unsupported("cannot_run_powershell"))
            ELSE IF run.success THEN Ok("unit")
            ELSE Err(map_windows_error(run.stderr)),
            <<Command("powershell", script)>>, <<>>)

\* AddIp / DelIp: ip_family(ip)? and then the cmdlet.
windows_ip(t, op, cmdlet, run) ==
    IF ParseIpAddr(op.ip) = "Err"
    THEN Outcome(Err(invalid_argument("bad_ip")), <<>>, <<>>)
    ELSE run_powershell_checked(<<cmdlet, t.if_index, op.ip, ParseIpAddr(op.ip)>>, run)

\* platform_windows::apply_one
apply_one_windows(t, op, run) ==
    IF t.if_index = 0
    THEN Outcome(Err(invalid_argument("windows_needs_if_index")), <<>>, <<>>)
    ELSE CASE op.op = "SetAdminState" ->
                 run_powershell_checked(<<IF op.up THEN "Enable-NetAdapter"
                                          ELSE "Disable-NetAdapter", t.if_index>>, run)
           [] op.op = "SetMtu" ->
                 run_powershell_checked(<<"Set-NetIPInterface", t.if_index, "NlMtuBytes",
                                          op.mtu>>, run)
           [] op.op = "AddIp" -> windows_ip(t, op, "New-NetIPAddress", run)
           [] op.op = "DelIp" -> windows_ip(t, op, "Remove-NetIPAddress", run)
           [] op.op = "SetIpv4Dhcp" ->
                 run_powershell_checked(<<"Set-NetIPInterface", t.if_index, "Dhcp",
                                          IF op.enable THEN "Enabled" ELSE "Disabled">>, run)
           [] op.op = "SetIpv4Static" ->
                 Outcome(Err(unsupported("windows_no_static")), <<>>, <<>>)

----------------------------------------------------------------------------
(* The platform layers run on one call each *)

Platforms == {"linux", "macos", "windows"}

\* stdout of `ip -j address`: whether it is JSON at all, whether that JSON is
\* an array, and the array's entries.
IpJson(json, array, entries) == [json |-> json, array |-> array, entries |-> entries]

LinuxParsable ==
    {IpJson(TRUE, TRUE, <<>>),
     IpJson(TRUE, TRUE, <<[ifindex |-> 1, ifname |-> "lo"],
                          [ifindex |-> 2, ifname |-> "eth0"]>>)}

LinuxUnparsable ==
    {IpJson(FALSE, FALSE, <<>>),
     IpJson(TRUE, FALSE, <<>>),
     IpJson(TRUE, TRUE, <<[ifindex |-> 1]>>)}

\* stdout of `ifconfig -a`: blocks separated by blank lines, each a sequence
\* of lines, each line given as its pieces around ':'.
Blocks(blocks) == [blocks |-> blocks]

MacParsable ==
    {Blocks(<< << <<"lo0", " flags=8049<UP,LOOPBACK,RUNNING,MULTICAST> mtu 16384">>,
           <<" inet 127.0.0.1 netmask 0xff000000">> >>,
        << <<"en0", " flags=8863<UP,BROADCAST,RUNNING> mtu 1500">> >> >>)}

\* Text that is not a description of any interface.
MacUnparsable ==
    {Blocks(<< << <<"Segmentation fault">> >> >>),
     Blocks(<< <<>>, << <<"%PDF-1.4">>, <<"endobj">> >> >>)}

\* stdout of the PowerShell script: whether it is JSON, and the JSON value.
PsJson(json, value) == [json |-> json, value |-> value]

WindowsParsable ==
    {PsJson(TRUE, [adapters |-> [kind |-> "array",
                                 items |-> <<[ifIndex |-> 2, Name |-> "Ethernet"],
                                             [ifIndex |-> 0, Name |-> "Ghost"],
                                             [ifIndex |-> 5]>>]]),
     PsJson(TRUE, [adapters |-> [kind |-> "object",
                                 item |-> [ifIndex |-> 2, Name |-> "Ethernet"]]])}

WindowsUnparsable == {PsJson(FALSE, NoOutput)}

Parsable(platform) ==
    CASE platform = "linux" -> LinuxParsable
      [] platform = "macos" -> MacParsable
      [] platform = "windows" -> WindowsParsable

Unparsable(platform) ==
    CASE platform = "linux" -> LinuxUnparsable
      [] platform = "macos" -> MacUnparsable
      [] platform = "windows" -> WindowsUnparsable

\* How the enumeration utility's run can end on a platform.
EnumRuns(platform) ==
    {NotStarted, Run(TRUE, FALSE, NoOutput, {"error"})}
    \cup {Run(TRUE, TRUE, text, {}) : text \in Parsable(platform) \cup Unparsable(platform)}

ListCalls ==
    UNION {{[call |-> "list", platform |-> p, run |-> r, cached |-> c, nmcli |-> n] :
                r \in EnumRuns(p),
                c \in (IF p = "linux" THEN {None, Some(TRUE), Some(FALSE)} ELSE {None}),
                n \in (IF p = "linux" THEN BOOLEAN ELSE {FALSE})} : p \in Platforms}

\* Operations that passed validate_op, which is all apply_one is ever given.
PlatformOps ==
    {op \in {SetAdminState(TRUE), SetAdminState(FALSE), SetMtu(1500),
             AddIp(IP_V4_PLAIN, 24), AddIp(IP_V6_LOOPBACK, 64), DelIp(IP_V4_PLAIN, 24),
             SetIpv4Dhcp(TRUE), SetIpv4Dhcp(FALSE),
             SetIpv4Static(IP_V4_PLAIN, 24, None),
             SetIpv4Static(IP_V4_PLAIN, 24, Some(IP_V4_ANY))} : validate_op(op).ok}

\* How a mutating command's run can end on macOS and Windows.
CommandRuns ==
    {NotStarted, Run(TRUE, TRUE, NoOutput, {}), Run(TRUE, FALSE, NoOutput, {"access is denied"}),
     Run(TRUE, FALSE, NoOutput, {"cannot find"}), Run(TRUE, FALSE, NoOutput, {"error"})}

\* stdout of `nmcli -t ... dev show`: its first line, as its pieces around the first ':'.
FirstLine(line) == [line |-> line]

\* `nmcli -t -f GENERAL.CONNECTION dev show <dev>`: nmcli cannot be started
\* when it is not installed, and exits nonzero when the NetworkManager service
\* is not running; otherwise it prints the device's connection, or fails.
ShowRuns(nmcli, service) ==
    IF ~nmcli THEN {NotStarted}
    ELSE IF ~service THEN {Run(TRUE, FALSE, NoOutput, {"NetworkManager is not running"})}
    ELSE {Run(TRUE, TRUE, FirstLine(<<"GENERAL.CONNECTION", "Wired 1">>), {}),
          Run(TRUE, TRUE, FirstLine(<<"GENERAL.CONNECTION", "--">>), {}),
          Run(TRUE, TRUE, FirstLine(<<"GENERAL.CONNECTION", "">>), {}),
          Run(TRUE, TRUE, FirstLine(<<>>), {}),
          Run(TRUE, FALSE, NoOutput, {"error"})}

\* What the mutating commands of one call run into: at most one of them fails.
FailSets == {{}, {1}, {2}, {3}, {4}}

\* What a rejected `nmcli con mod` can say: nothing the engine looks for; that
\* the address is no address of the profile; and that the profile's last
\* manual address cannot be removed, in nmcli's Chinese wording (the phrase
\* the engine looks for, written "not_allowed" here) and in its English one.
LastAddressRejections ==
    {{"ipv4.addresses", "not_allowed"}, {"ipv4.addresses", "cannot be empty"}}

TryErrs == {{}, {"ipv4.addresses"}} \cup LastAddressRejections

IP_V4_LINK_LOCAL == LINK_LOCAL_PREFIX \o <<"0", ".", "7">>

AddrInfo(family, local, prefixlen) ==
    [family |-> family, local |-> local, prefixlen |-> prefixlen]

\* How `ip -j address show dev <dev>` can run and what it can print.
AddrRuns ==
    {NotStarted, Run(TRUE, FALSE, NoOutput, {"error"}),
     Run(TRUE, TRUE, IpJson(FALSE, FALSE, <<>>), {}),
     Run(TRUE, TRUE, IpJson(TRUE, TRUE, <<>>), {}),
     Run(TRUE, TRUE, IpJson(TRUE, TRUE, <<[ifindex |-> 2, ifname |-> "eth0"]>>), {}),
     Run(TRUE, TRUE, IpJson(TRUE, TRUE,
         <<[ifindex |-> 2, ifname |-> "eth0",
            addr_info |-> <<AddrInfo("inet", IP_V4_LINK_LOCAL, 16),
                            AddrInfo("inet6", IP_V6_LINK, 64)>>]>>), {}),
     Run(TRUE, TRUE, IpJson(TRUE, TRUE,
         <<[ifindex |-> 2, ifname |-> "eth0",
            addr_info |-> <<AddrInfo("inet6", IP_V6_LINK, 64),
                            AddrInfo("inet", IP_V4_LINK_LOCAL, 16),
                            AddrInfo("inet", IP_V4_ANY, 0),
                            AddrInfo("inet", IP_V4_PLAIN, 24),
                            AddrInfo("inet", IP_V4_ANY, 8)>>]>>), {})}

\* How `ip -j route show default dev <dev>` can run and what it can print.
RouteRuns ==
    {Run(TRUE, FALSE, NoOutput, {"error"}),
     Run(TRUE, TRUE, IpJson(TRUE, TRUE, <<>>), {}),
     Run(TRUE, TRUE, IpJson(TRUE, TRUE, <<[dst |-> "default"]>>), {}),
     Run(TRUE, TRUE, IpJson(TRUE, TRUE, <<[dst |-> "default", gateway |-> <<>>],
                                          [dst |-> "default", gateway |-> IP_V4_ANY]>>), {})}

PersistOutcomes == {"no_dir", "ok", "denied", "io_error"}

\* The Linux system one apply_one call runs in: the memo of nmcli_available(),
\* whether nmcli is installed and the NetworkManager service running now, and
\* how the tools the operation reaches answer.
LinuxEnvs(op) ==
    {[cached |-> c, nmcli |-> n, service |-> sv, show |-> sh, fails |-> f,
      try_err |-> te, addr |-> ad, route |-> ro, persist |-> ps] :
        c \in {None, Some(TRUE), Some(FALSE)}, n \in BOOLEAN,
        sv \in BOOLEAN, sh \in UNION {ShowRuns(x, y) : x, y \in BOOLEAN},
        f \in FailSets,
        te \in (IF op.op = "DelIp" THEN TryErrs ELSE {{}}),
        ad \in (IF op = SetIpv4Dhcp(FALSE) THEN AddrRuns ELSE {NotStarted}),
        ro \in (IF op = SetIpv4Dhcp(FALSE) THEN RouteRuns ELSE {NotStarted}),
        ps \in (IF op.op = "SetIpv4Static" THEN PersistOutcomes ELSE {"ok"})}

ConsistentEnv(env) ==
    /\ env.service => env.nmcli
    /\ env.show \in ShowRuns(env.nmcli, env.service)

\* The target resolve_target hands to apply_one: on Windows it carries the
\* index, which enumeration never reports as 0.
WindowsTarget == [if_index |-> 2, name |-> "Ethernet"]

ApplyCalls ==
    {[call |-> "apply_one", platform |-> p, target |-> WindowsTarget, op |-> op, run |-> r] :
        p \in {"windows"}, op \in PlatformOps, r \in CommandRuns}
    \cup {[call |-> "apply_one", platform |-> p, target |-> ResolvedTarget(NetInterface(2, "en0")),
           op |-> op, run |-> r] :
        p \in {"macos"}, op \in PlatformOps, r \in CommandRuns}
    \cup UNION {{[call |-> "apply_one", platform |-> "linux",
                  target |-> ResolvedTarget(NetInterface(2, "eth0")), op |-> op, env |-> e] :
                    e \in {x \in LinuxEnvs(op) : ConsistentEnv(x)}} : op \in PlatformOps}

\* platform::list_interfaces() of the build for the call's platform.
list_on(c) ==
    CASE c.platform = "linux" -> list_interfaces_linux_run(c.run, c.cached, c.nmcli)
      [] c.platform = "macos" -> list_interfaces_macos(c.run)
      [] c.platform = "windows" -> list_interfaces_windows(c.run)

\* platform::apply_one(target, op) of the build for the call's platform.
apply_one_on(c) ==
    CASE c.platform = "linux" -> apply_one_linux(c.target, c.op, c.env)
      [] c.platform = "macos" -> apply_one_macos(c.target, c.op, c.run)
      [] c.platform = "windows" -> apply_one_windows(c.target, c.op, c.run)

\* The targets asked for on macOS: by index, by name, by both, by neither.
MacSelectors ==
    {IfaceSelector(i, n) : i \in {None, Some(0), Some(4)},
                           n \in {None, Some("en0"), Some("en9")}}

\* The start of apply_request on macOS: the enumeration and the resolution of
\* the request's target.
ResolveCalls ==
    {[call |-> "resolve", platform |-> "macos", run |-> r, sel |-> sel] :
        r \in EnumRuns("macos"), sel \in MacSelectors}

\* list_interfaces()? followed by resolve_target(&req.target, &ifaces)
resolve_on(c, listed) == IF listed.ok THEN resolve_target(c.sel, listed.val) ELSE listed

InitPlatform ==
    /\ NoCall
    /\ FreshProcess
    /\ NoBuffers
    /\ osIfaces = OsWithEth0
    /\ vin \in {Some(c) : c \in ListCalls \cup ApplyCalls \cup ResolveCalls}
    /\ vout = None

Enumerate ==
    /\ IsSome(vin)
    /\ Unwrap(vin).call = "list"
    /\ vout = None
    /\ vout' = Some(list_on(Unwrap(vin)))
    /\ UNCHANGED <<pc, input, osIfaces, ifaces, target, k, results, all_ok, out, ret,
                   enumCalls, resolveCalls, validated, dispatched, vin,
                   parseCalls, linuxVars, memVars>>

ApplyOne ==
    /\ IsSome(vin)
    /\ Unwrap(vin).call = "apply_one"
    /\ vout = None
    /\ vout' = Some(apply_one_on(Unwrap(vin)))
    /\ UNCHANGED <<pc, input, osIfaces, ifaces, target, k, results, all_ok, out, ret,
                   enumCalls, resolveCalls, validated, dispatched, vin,
                   parseCalls, linuxVars, memVars>>

ResolveOn ==
    /\ IsSome(vin)
    /\ Unwrap(vin).call = "resolve"
    /\ vout = None
    /\ vout' = Some(resolve_on(Unwrap(vin), list_on(Unwrap(vin))))
    /\ UNCHANGED <<pc, input, osIfaces, ifaces, target, k, results, all_ok, out, ret,
                   enumCalls, resolveCalls, validated, dispatched, vin,
                   parseCalls, linuxVars, memVars>>

NextPlatform == Enumerate \/ ApplyOne \/ ResolveOn

SpecPlatform == InitPlatform /\ [][NextPlatform]_vars

----------------------------------------------------------------------------
(* One batch on Linux, one external process at a time: the loop of          *)
(* apply_request over platform_linux::apply_one, each Command::output() a   *)
(* child process that is started and then waited for                        *)

\* The invocations of one apply_one call in the order the code makes them:
\* the queries come first, except that SetIpv4Dhcp{enable:false} asks for the
\* default route only after its first two profile edits.
InvocationsOf(o) ==
    IF o.queries # <<>> /\ o.queries[Len(o.queries)].args[2] = "route"
    THEN SubSeq(o.queries, 1, Len(o.queries) - 1) \o SubSeq(o.cmds, 1, 2)
         \o <<o.queries[Len(o.queries)]>> \o SubSeq(o.cmds, 3, Len(o.cmds))
    ELSE o.queries \o o.cmds

\* validate_op(&op).and_then(|_| platform::apply_one(&target, &op)): an
\* operation that fails validation starts no process.
DispatchedInvocations(t, op, env) ==
    IF validate_op(op).ok THEN InvocationsOf(apply_one_linux(t, op, env)) ELSE <<>>

\* Command::output() returns only when the child has exited, so the next
\* Command is built with none in flight.
MayInvoke_NoWait(inflight) == TRUE

MayInvoke(inflight) == inflight = <<>>

BatchOps ==
    {SetAdminState(TRUE), SetMtu(0), AddIp(IP_V4_PLAIN, 24), DelIp(IP_V4_PLAIN, 24),
     SetIpv4Dhcp(FALSE)}

MaxBatch == 2

Batches == {b \in SeqsUpTo(BatchOps, MaxBatch) : b # <<>>}

\* The systems a batch's operation can meet: with and without a managing
\* connection, the memo empty or set, every tool succeeding.
BatchEnvs(op) ==
    {e \in LinuxEnvs(op) :
        /\ ConsistentEnv(e)
        /\ e.fails = {}
        /\ e.cached \in {None, Some(TRUE)}
        /\ e.nmcli /\ e.service
        /\ e.show.success
        /\ e.show.stdout.line \in {<<"GENERAL.CONNECTION", "Wired 1">>,
                                   <<"GENERAL.CONNECTION", "--">>}}

\* The loop's state: operations finished, whether one is under way, the
\* invocations it still has to make, the children in flight, the order in
\* which operations were begun and how many processes each one started.
BatchState(done, busy, todo, inflight, begun, started) ==
    [done |-> done, busy |-> busy, todo |-> todo, inflight |-> inflight,
     begun |-> begun, started |-> started]

InitBatch ==
    /\ NoCall
    /\ FreshProcess
    /\ NoBuffers
    /\ osIfaces = OsWithEth0
    /\ vin \in {Some([call |-> "batch", target |-> ResolvedTarget(NetInterface(2, "eth0")),
                      ops |-> b]) : b \in Batches}
    /\ vout = Some(BatchState(0, FALSE, <<>>, <<>>, <<>>, <<>>))

BatchFrame ==
    UNCHANGED <<pc, input, osIfaces, ifaces, target, k, results, all_ok, out, ret,
                enumCalls, resolveCalls, validated, dispatched, vin,
                parseCalls, linuxVars, memVars>>

\* The loop takes the next operation of req.ops.
BeginOp ==
    /\ ~Unwrap(vout).busy
    /\ Unwrap(vout).done < Len(Unwrap(vin).ops)
    /\ \E e \in BatchEnvs(Unwrap(vin).ops[Unwrap(vout).done + 1]) :
          vout' = Some([Unwrap(vout) EXCEPT
                    !.busy = TRUE,
                    !.todo = DispatchedInvocations(Unwrap(vin).target,
                                 Unwrap(vin).ops[Unwrap(vout).done + 1], e),
                    !.begun = Append(@, Unwrap(vout).done),
                    !.started = Append(@, 0)])
    /\ BatchFrame

\* Command::new(..).output() starts the child.
Invoke ==
    /\ Unwrap(vout).busy
    /\ Unwrap(vout).todo # <<>>
    /\ MayInvoke(Unwrap(vout).inflight)
    /\ vout' = Some([Unwrap(vout) EXCEPT
                !.inflight = Append(@, Head(Unwrap(vout).todo)),
                !.todo = Tail(@),
                !.started[Len(Unwrap(vout).started)] = @ + 1])
    /\ BatchFrame

\* The child exits and output() returns.
ChildExits ==
    /\ Unwrap(vout).inflight # <<>>
    /\ vout' = Some([Unwrap(vout) EXCEPT !.inflight = Tail(@)])
    /\ BatchFrame

\* apply_one has returned; the result is pushed and the loop goes on.
EndOp ==
    /\ Unwrap(vout).busy
    /\ Unwrap(vout).todo = <<>>
    /\ MayInvoke(Unwrap(vout).inflight)
    /\ vout' = Some([Unwrap(vout) EXCEPT !.busy = FALSE, !.done = @ + 1])
    /\ BatchFrame

NextBatch == BeginOp \/ Invoke \/ ChildExits \/ EndOp

SpecBatch == InitBatch /\ [][NextBatch]_vars

----------------------------------------------------------------------------
(* Properties of the resolver and the validator *)

ByIndex(sel) == IsSome(sel.if_index) /\ Unwrap(sel.if_index) # 0

IndexHits(sel, ifs) == {j \in 1..Len(ifs) : ifs[j].if_index = Unwrap(sel.if_index)}

\* C6: target resolution. A present nonzero if_index decides alone: the
\* interface with that index is chosen, NotFound if there is none, whatever the
\* name says; otherwise a present name chooses the interface of exactly that
\* name, NotFound if there is none; otherwise InvalidArgument.
C6_ResolutionDecision ==
    IsSome(vout) =>
        LET sel == vin.sel
            ifs == vin.ifs
            res == Unwrap(vout)
        IN  IF ByIndex(sel)
            THEN IF IndexHits(sel, ifs) # {}
                 THEN /\ res.ok
                      /\ \E j \in IndexHits(sel, ifs) : res.val.name = ifs[j].name
                 ELSE FailsWith(res, "NotFound")
            ELSE IF IsSome(sel.name)
            THEN IF Unwrap(sel.name) \in Names(ifs)
                 THEN res.ok /\ res.val.name = Unwrap(sel.name)
                 ELSE FailsWith(res, "NotFound")
            ELSE FailsWith(res, "InvalidArgument")

\* C6 witness: resolved with an index no interface has and a name one has: NotFound.
C6_Witness ==
    /\ IsSome(vout)
    /\ ByIndex(vin.sel)
    /\ IndexHits(vin.sel, vin.ifs) = {}
    /\ IsSome(vin.sel.name)
    /\ Unwrap(vin.sel.name) \in Names(vin.ifs)
    /\ FailsWith(Unwrap(vout), "NotFound")

\* What the claims say validate_op accepts, on the labelled address strings.
PrefixFits(ip, prefix_len) ==
    \/ ip \in IpV4Strings /\ prefix_len \in 0..32
    \/ ip \in IpV6Strings /\ prefix_len \in 0..128

\* C9: validate_op accepts AddIp/DelIp exactly when the address is an IP
\* literal and the prefix length is within 0..=32 (IPv4) or 0..=128 (IPv6), AddIp
\* also rejecting prefix length 0; every rejection is InvalidArgument.
C9_AddDelIpAccepted ==
    (IsSome(vout) /\ vin.op \in {"AddIp", "DelIp"}) =>
        /\ Unwrap(vout).ok <=>
              /\ PrefixFits(vin.ip, vin.prefix_len)
              /\ (vin.op = "AddIp" => vin.prefix_len # 0)
        /\ ~Unwrap(vout).ok => Unwrap(vout).err.code = "InvalidArgument"

\* C9 witness: AddIp of an IPv6 literal with prefix length 0 was rejected, and
\* DelIp of the same could not have been.
C9_Witness ==
    /\ IsSome(vout)
    /\ vin.op = "AddIp"
    /\ vin.ip \in IpV6Strings
    /\ vin.prefix_len = 0
    /\ FailsWith(Unwrap(vout), "InvalidArgument")
    /\ validate_op(DelIp(vin.ip, vin.prefix_len)).ok

\* C10: validate_op accepts SetIpv4Static exactly when prefix_len is within
\* 1..=32, the address is an IPv4 literal and the gateway, if present, is an
\* IPv4 literal; every rejection is InvalidArgument.
C10_SetIpv4StaticAccepted ==
    (IsSome(vout) /\ vin.op = "SetIpv4Static") =>
        /\ Unwrap(vout).ok <=>
              /\ vin.prefix_len \in 1..32
              /\ vin.ip \in IpV4Strings
              /\ (IsSome(vin.gateway) => Unwrap(vin.gateway) \in IpV4Strings)
        /\ ~Unwrap(vout).ok => Unwrap(vout).err.code = "InvalidArgument"

\* C10 witness: an IPv6 address with a valid prefix length and no gateway was rejected.
C10_Witness ==
    /\ IsSome(vout)
    /\ vin.op = "SetIpv4Static"
    /\ vin.ip \in IpV6Strings
    /\ vin.prefix_len \in 1..32
    /\ vin.gateway = None
    /\ FailsWith(Unwrap(vout), "InvalidArgument")

----------------------------------------------------------------------------
(* Properties of the apply call *)

IsRequest == input.kind = "request"

Resolved == IsRequest /\ IsSome(target)

Payload == Unwrap(out)

\* The operations of the pool that validate_op rejects.
InvalidOps == {SetMtu(0), SetIpv4Static(IP_V6_LOOPBACK, 24, None)}

DispatchedIndices == {dispatched[j].i : j \in 1..Len(dispatched)}

\* C1: an apply request whose abi differs from the engine's is answered with
\* an apply envelope: the engine's abi, ok == false and exactly one result,
\* whose error code is InvalidArgument.
C1_AbiMismatchEnvelope ==
    (pc = "Done" /\ IsRequest /\ req.abi # NETIF_ABI_VERSION) =>
        /\ IsSome(out)
        /\ Payload.abi = NETIF_ABI_VERSION
        /\ Payload.ok = FALSE
        /\ "results" \in DOMAIN Payload
        /\ Len(Payload.results) = 1
        /\ "error" \in DOMAIN Payload.results[1]
        /\ Payload.results[1].error.code = "InvalidArgument"

\* C2: past target resolution the results list has one entry per operation
\* processed, in submission order, the entry at position j (from 0) carrying
\* i == j; at the end there is one per submitted operation, and the payload
\* lists them in the same order.
C2_ResultsInSubmissionOrder ==
    Resolved =>
        /\ Len(results) = k
        /\ \A j \in 1..Len(results) : results[j].i = j - 1
        /\ pc = "Done" =>
              /\ Len(results) = Len(req.ops)
              /\ Len(Payload.results) = Len(req.ops)
              /\ \A j \in 1..Len(req.ops) :
                    /\ Payload.results[j].i = j - 1
                    /\ Payload.results[j].ok = results[j].ok

\* C2 witness: a finished call whose first two results differ in success.
C2_Witness ==
    /\ pc = "Done"
    /\ Resolved
    /\ Len(results) >= 2
    /\ results[1].ok # results[2].ok

\* C3: in every response produced after resolution, the aggregate ok is true
\* exactly when every per-operation result is ok (so with no operations it is true).
C3_AggregateOkIsConjunction ==
    (pc = "Done" /\ Resolved) =>
        /\ Payload.ok <=> \A j \in 1..Len(Payload.results) : Payload.results[j].ok
        /\ req.ops = <<>> => Payload.ok

\* C3 witness: a response whose last result is ok and whose aggregate is not.
C3_Witness ==
    /\ pc = "Done"
    /\ Resolved
    /\ Len(Payload.results) >= 2
    /\ Payload.results[Len(Payload.results)].ok
    /\ ~Payload.ok

\* The positions (from 0) of the operations validate_op accepts, in order.
RECURSIVE ValidIndices(_, _)
ValidIndices(ops, n) ==
    IF n = 0 THEN <<>>
    ELSE IF validate_op(ops[n]).ok THEN Append(ValidIndices(ops, n - 1), n - 1)
    ELSE ValidIndices(ops, n - 1)

\* C4: no short-circuiting. Once the target is resolved, a call ends only after
\* every operation was validated, in order, and every valid one dispatched,
\* however many of them failed.
C4_NoShortCircuit ==
    Resolved =>
        /\ validated = [j \in 1..k |-> j - 1]
        /\ [j \in 1..Len(dispatched) |-> dispatched[j].i] = ValidIndices(req.ops, k)
        /\ pc = "Done" => k = Len(req.ops)

\* C4 witness: an operation was dispatched after an earlier one of the batch failed.
C4_Witness ==
    /\ Resolved
    /\ \E a, b \in 1..Len(results) :
          /\ a < b
          /\ ~results[a].ok
          /\ b - 1 \in DispatchedIndices

\* The call's enumeration failed, or its resolution against the snapshot did.
EnumOrResolveFailed ==
    /\ IsRequest
    /\ enumCalls > 0
    /\ \/ ifaces = None
       \/ ~resolve_target(req.target, Unwrap(ifaces)).ok

\* C5: when enumeration or target resolution fails, the call ends with that
\* single error, and no operation of the batch is validated or dispatched.
C5_ResolveFailureAborts ==
    EnumOrResolveFailed =>
        /\ pc = "Done"
        /\ validated = <<>>
        /\ dispatched = <<>>
        /\ results = <<>>
        /\ DOMAIN Payload = {"abi", "ok", "error"}
        /\ Unwrap(ret) = as_i32(Payload.error.code)
        /\ IF ifaces = None
           THEN Payload.error.code \in {"Unsupported", "SystemError"}
           ELSE Payload.error = resolve_target(req.target, Unwrap(ifaces)).err

\* C5 witness: a batch with operations ended on a NotFound resolution.
C5_Witness ==
    /\ EnumOrResolveFailed
    /\ req.ops # <<>>
    /\ ifaces # None
    /\ Payload.error.code = "NotFound"

\* C7: within one apply call, enumeration and resolution happen exactly once,
\* before the first operation, and every operation is handed the target
\* resolved then, whatever the OS's interfaces have become since.
C7_ResolvedOnce ==
    /\ validated # <<>> => Resolved
    /\ Resolved =>
          /\ enumCalls = 1
          /\ resolveCalls = 1
          /\ target = Some(resolve_target(req.target, Unwrap(ifaces)).val)
          /\ \A j \in 1..Len(dispatched) : dispatched[j].target = Unwrap(target)

\* C7 witness: of two dispatched operations, the OS still had the target at the
\* first and no longer at the second.
C7_Witness ==
    /\ Resolved
    /\ \E a, b \in 1..Len(dispatched) :
          /\ a < b
          /\ dispatched[a].os_has_target
          /\ ~dispatched[b].os_has_target

\* C8: an operation that fails validation gets InvalidArgument in its own slot
\* and is never dispatched, and the others are; [SetMtu{0}, SetAdminState{true}]
\* on a valid target yields two results, the first failing InvalidArgument,
\* and aggregate ok == false.
C8_ValidationFailureIsLocal ==
    Resolved =>
        /\ \A j \in 1..Len(results) :
              IF req.ops[j] \in InvalidOps
              THEN /\ ~results[j].ok
                   /\ Unwrap(results[j].error).code = "InvalidArgument"
                   /\ j - 1 \notin DispatchedIndices
              ELSE j - 1 \in DispatchedIndices
        /\ (pc = "Done" /\ req.ops = <<SetMtu(0), SetAdminState(TRUE)>>) =>
              /\ Len(Payload.results) = 2
              /\ ~Payload.results[1].ok
              /\ Payload.results[1].error.code = "InvalidArgument"
              /\ ~Payload.ok
              /\ DispatchedIndices = {1}

\* C8 witness: [SetMtu{0}, SetAdminState{true}] ended with the second result ok.
C8_Witness ==
    /\ pc = "Done"
    /\ Resolved
    /\ req.ops = <<SetMtu(0), SetAdminState(TRUE)>>
    /\ Payload.results[2].ok

\* The call was handed a null request pointer, a zero-length request or
\* request bytes that are not UTF-8.
UndecodableInput == input.kind \in {"null_req", "zero_len", "non_utf8"}

\* C14: apply rejects a null request pointer, a zero-length request and
\* non-UTF-8 request bytes with InvalidArgument before any parsing: such a call
\* goes from Start straight to Done, and nothing is parsed, enumerated,
\* resolved, validated or dispatched on the way.
C14_RejectedBeforeParsing ==
    UndecodableInput =>
        /\ pc \in {"Start", "Done"}
        /\ parseCalls = 0
        /\ enumCalls = 0
        /\ resolveCalls = 0
        /\ validated = <<>>
        /\ dispatched = <<>>
        /\ pc = "Done" =>
              /\ ret = Some(as_i32("InvalidArgument"))
              /\ Payload.error.code = "InvalidArgument"

\* C14 witness: a zero-length request was answered.
C14_Witness ==
    /\ pc = "Done"
    /\ input.kind = "zero_len"
    /\ ret = Some(as_i32("InvalidArgument"))
    /\ parseCalls = 0

\* C16: an apply request whose abi differs from the engine's causes no
\* enumeration, no target resolution, no validation and no dispatch: the call
\* goes from Start straight to Done, having done nothing but decode the request.
C16_AbiAgreedFirst ==
    (IsRequest /\ req.abi # NETIF_ABI_VERSION) =>
        /\ pc \in {"Start", "Done"}
        /\ enumCalls = 0
        /\ resolveCalls = 0
        /\ ifaces = None
        /\ target = None
        /\ validated = <<>>
        /\ dispatched = <<>>

\* C16 witness: a request with a foreign abi, a resolvable target and
\* operations to run was answered.
C16_Witness ==
    /\ pc = "Done"
    /\ IsRequest
    /\ req.abi # NETIF_ABI_VERSION
    /\ req.ops # <<>>
    /\ resolve_target(req.target, osIfaces).ok
    /\ parseCalls = 1

----------------------------------------------------------------------------
(* Properties of the C boundary *)

ListOrApply == last.fn \in {"list", "apply"}

NullOut == ListOrApply /\ last.input.kind = "null_out"

Freed == last.fn = "free" /\ last.ptr # 0

HeldPtrs == {h.ptr : h \in held}

\* C11: every list/apply call given non-null out pointers hands exactly one
\* freshly allocated buffer to the caller, on success and on error alike;
\* tool_free releases exactly the buffer it is given; so the live allocations
\* are exactly the buffers handed out and not yet freed, none is held twice,
\* and no byte handed out is lost to the allocator or brings the process down.
C11_BufferOwnership ==
    /\ LiveAddrs = HeldPtrs
    /\ Cardinality(heap) = handed - released
    /\ Cardinality(held) = Cardinality(heap)
    /\ (ListOrApply /\ ~NullOut) => /\ IsSome(last.out)
                                    /\ Unwrap(last.out) \in held
    /\ Freed => last.ptr \notin HeldPtrs
    /\ lost = 0
    /\ ~crashed

\* C12: tool_free(ptr, len) with the pair written by list/apply does not
\* crash, and releases the allocation at that address with the allocation
\* size (capacity) the engine allocated for that buffer.
C12_FreeReleasesWhatWasAllocated ==
    Freed =>
        /\ ~crashed
        /\ last.how = "released"
        /\ last.size = last.cap

\* The payload of a call that succeeded is the call's response envelope.
SuccessEnvelope ==
    IF last.fn = "list"
    THEN DOMAIN Unwrap(last.payload) = {"abi", "items"}
    ELSE DOMAIN Unwrap(last.payload) = {"abi", "ok", "results"}

\* What C13 says of a list/apply call that has returned.
EnvelopeAndReturnCode ==
    /\ IsSome(last.out)
    /\ IsSome(last.payload)
    /\ Unwrap(last.payload).abi = ABI_VERSION
    /\ IF last.failed
       THEN /\ last.ret # 0
            /\ DOMAIN Unwrap(last.payload) = {"abi", "ok", "error"}
            /\ Unwrap(last.payload).ok = FALSE
            /\ last.ret = as_i32(Unwrap(last.payload).error.code)
       ELSE /\ last.ret = 0
            /\ SuccessEnvelope

\* C13: list and apply write a serialized response envelope into the output
\* buffer both on success and on error, and return 0 on success and otherwise
\* the numeric error code, which is the code of the error in the payload.
C13_EnvelopeAndReturnCode ==
    ListOrApply => EnvelopeAndReturnCode

\* C13, amended: the above holds for calls given non-null out pointers; a call
\* given a null out_ptr or out_len returns InvalidArgument and writes nothing.
C13_EnvelopeAndReturnCode_NonNullOut ==
    ListOrApply =>
        IF NullOut
        THEN /\ last.ret = as_i32("InvalidArgument")
             /\ last.out = None
             /\ last.payload = None
        ELSE EnvelopeAndReturnCode

\* C13 witness: a list call whose OS utility could not be run returned 3
\* (Unsupported) with an error payload saying Unsupported.
C13_Witness ==
    /\ last.fn = "list"
    /\ ~NullOut
    /\ last.ret = 3
    /\ Unwrap(last.payload).error.code = "Unsupported"

\* A payload carrying a structured {code, message} error, or the fixed fallback.
StructuredError(p) ==
    \/ /\ "error" \in DOMAIN p
       /\ DOMAIN p.error = {"code", "message"}
       /\ p.error.code \in ErrorCode \ {"Ok"}
    \/ p = FallbackPayload

\* C15: every failing path of list/apply at the C boundary delivers to the
\* caller an output payload with a structured {code, message} error (or the
\* fixed fallback payload), never a failure with no output.
C15_NoErrorDropped ==
    (ListOrApply /\ last.ret # 0) =>
        /\ IsSome(last.payload)
        /\ StructuredError(Unwrap(last.payload))

\* C15, amended: every failing path of a call given non-null out pointers
\* delivers such a payload, in a buffer the caller holds; with a null out_ptr
\* or out_len the failure is the returned InvalidArgument alone.
C15_NoErrorDropped_NonNullOut ==
    (ListOrApply /\ last.ret # 0) =>
        IF NullOut
        THEN last.ret = as_i32("InvalidArgument") /\ last.payload = None
        ELSE /\ IsSome(last.payload)
             /\ StructuredError(Unwrap(last.payload))
             /\ Unwrap(last.out) \in held

\* C15 witness: an apply call whose target matched no interface failed with a
\* NotFound payload.
C15_Witness ==
    /\ last.fn = "apply"
    /\ last.input.kind = "request"
    /\ last.ret = as_i32("NotFound")
    /\ Unwrap(last.payload).error.code = "NotFound"

----------------------------------------------------------------------------
(* Properties of the platform layers *)

Listed == IsSome(vin) /\ Unwrap(vin).call = "list" /\ IsSome(vout)

AppliedOne == IsSome(vin) /\ Unwrap(vin).call = "apply_one" /\ IsSome(vout)

\* The enumeration utility ran to a successful exit but printed something
\* that is not a listing of interfaces.
PrintedUnparsable(c) ==
    c.run.spawned /\ c.run.success /\ c.run.stdout \in Unparsable(c.platform)

\* C17: on every platform, enumeration fails with Unsupported when the OS
\* utility cannot be invoked, and with SystemError when the utility exits
\* nonzero or prints output that cannot be parsed; in none of these cases
\* does it return a list.
C17_EnumerationFailures ==
    Listed =>
        /\ ~Unwrap(vin).run.spawned => FailsWith(Unwrap(vout), "Unsupported")
        /\ (Unwrap(vin).run.spawned /\ ~Unwrap(vin).run.success)
              => FailsWith(Unwrap(vout), "SystemError")
        /\ PrintedUnparsable(Unwrap(vin)) => FailsWith(Unwrap(vout), "SystemError")

\* The operations the claim names as beyond a platform, on the call's platform.
CannotPerform(c) ==
    \/ c.platform = "macos" /\ c.op.op \in {"SetIpv4Dhcp", "SetIpv4Static"}
    \/ c.platform = "windows" /\ c.op.op = "SetIpv4Static"
    \/ c.platform = "linux" /\ c.op.op = "SetIpv4Dhcp" /\ ~c.env.service

\* C18: an operation a platform cannot perform (SetIpv4Dhcp and SetIpv4Static
\* on macOS, SetIpv4Static on Windows, SetIpv4Dhcp on Linux with no connection
\* manager present) is reported as Unsupported and invokes no mutating command.
C18_UnsupportedOperations ==
    (AppliedOne /\ CannotPerform(Unwrap(vin))) =>
        /\ FailsWith(Unwrap(vout).res, "Unsupported")
        /\ Unwrap(vout).cmds = <<>>

----------------------------------------------------------------------------
(* Properties of enumeration across calls *)

\* The interfaces of a returned list, without the per-call capability fields.
Ifaces(items) == [j \in 1..Len(items) |-> NetInterface(items[j].if_index, items[j].name)]

\* A step in which tool_netif_list_json returned (a repeated call that
\* returns what the call before it returned, address included, changes nothing).
ListReturned == last' # last /\ last'.fn = "list"

\* A step in which list_interfaces() ran, for a list or for an apply call.
Enumerated == lastList' # lastList

\* The enumeration just made returns the interfaces the OS has at the time of
\* that call, whatever earlier calls saw.
Requeried ==
    Unwrap(lastList').listed.ok => Ifaces(Unwrap(lastList').listed.val) = osIfaces

\* The enumeration just made and the one before it were made on the same
\* system and both succeeded.
ConsecutiveOnSameSystem(e) ==
    /\ IsSome(e.prev)
    /\ Unwrap(e.prev).os = e.os
    /\ Unwrap(e.prev).listed.ok
    /\ e.listed.ok

\* The list call leaves the interface configuration and the OS as they were.
ListLeavesSystemAlone == osIfaces' = osIfaces /\ osNmcli' = osNmcli

\* The only engine state that outlives a call is the memo of nmcli_available(),
\* and the only change to it is its initialisation from the OS.
MemoOnlyInitialised == CACHED' = CACHED \/ (CACHED = None /\ CACHED' = Some(osNmcli))

\* C19 as stated: a list call changes neither the system's interface
\* configuration nor any engine state later calls depend on; every list and
\* apply call re-queries the OS; two consecutive enumerations with no change
\* in between return equal results.
C19_EnumerationStateless ==
    [][/\ ListReturned => (ListLeavesSystemAlone /\ CACHED' = CACHED)
       /\ Enumerated => Requeried
       /\ (Enumerated /\ ConsecutiveOnSameSystem(Unwrap(lastList')))
             => Unwrap(lastList').listed = Unwrap(Unwrap(lastList').prev).listed]_vars

\* C19, amended: a list call changes neither the system's interface
\* configuration nor any engine state other than initialising the
\* once-per-process detection of the connection manager; every list and apply
\* call re-queries the OS for the interface list; two consecutive enumerations
\* with no change in between return equal results.
C19_EnumerationStateless_ButMemo ==
    [][/\ ListReturned => (ListLeavesSystemAlone /\ MemoOnlyInitialised)
       /\ Enumerated => Requeried
       /\ (Enumerated /\ ConsecutiveOnSameSystem(Unwrap(lastList')))
             => Unwrap(lastList').listed = Unwrap(Unwrap(lastList').prev).listed]_vars

\* Two list calls in a row on an unchanged system, both returning interfaces,
\* the first of which initialised the memo.
C19_Witness ==
    /\ IsSome(lastList)
    /\ Unwrap(lastList).by = "list"
    /\ ConsecutiveOnSameSystem(Unwrap(lastList))
    /\ Unwrap(Unwrap(lastList).prev).by = "list"
    /\ Len(Unwrap(lastList).listed.val) > 0
    /\ IsSome(CACHED)

----------------------------------------------------------------------------
(* Properties of the course of one apply call *)

\* The request gets past the checks of Start: it decodes, parses and carries
\* the engine's abi.
Accepted == Enumerates(input)

\* The steps a call may take: Start to ResolveTarget (to Done if the request is
\* rejected), ResolveTarget to the loop (to Done if it fails), the loop to
\* itself and, once every operation has had its turn, to Done; a call whose
\* tool hangs stays where it is for good.
FollowsTheStateMachine ==
    /\ pc = "Idle" => pc' \in {"Idle", "Start"}
    /\ pc = "Start" => pc' \in {"Start", IF Accepted THEN "ResolveTarget" ELSE "Done"}
    /\ pc = "ResolveTarget" => pc' \in {"ResolveTarget", "ValidateAndDispatch", "Done", "Hung"}
    /\ pc = "ValidateAndDispatch" =>
          /\ pc' \in {"ValidateAndDispatch", "Done", "Hung"}
          /\ pc' = "Done" => k = Len(req.ops)
          /\ k' \in {k, k + 1}
    /\ pc = "Done" => pc' \in {"Done", "Idle"}
    /\ pc = "Hung" => pc' = "Hung"

\* A call that is over has returned a code and, unless it was given no place
\* to write to, a response.
DoneWithResponse ==
    pc = "Done" => (IsSome(ret) /\ (input.kind # "null_out" => IsSome(out)))

\* C20: every apply call follows Start -> ResolveTarget -> ValidateAndDispatch*
\* -> Done (a rejected request or a failed resolution going to Done at once);
\* unless an OS tool it invoked never returns, it reaches Done with a response;
\* and when a tool never returns the call never completes, there being no
\* timeout and no cancellation.
C20_CompletesIffToolsReturn ==
    /\ [][FollowsTheStateMachine]_vars
    /\ []DoneWithResponse
    /\ (pc = "Start") ~> (pc = "Done" \/ pc = "Hung")
    /\ [](pc = "Hung" => [](pc = "Hung"))

\* A call with two operations, one of them failing, that went through the loop
\* twice and completed with both results.
C20_Witness ==
    /\ pc = "Done"
    /\ IsRequest
    /\ Len(req.ops) = 2
    /\ Len(results) = 2
    /\ ~all_ok
    /\ ret = Some(0)
    /\ IsSome(out)

----------------------------------------------------------------------------
(* Properties of a batch's external processes *)

\* Operations are begun in submission order, at most one child process is in
\* flight, and an operation is begun only with no child in flight and the
\* operation before it finished.
OneAtATimeInOrder ==
    /\ Len(Unwrap(vout).inflight) <= 1
    /\ Unwrap(vout).begun = [j \in 1..Len(Unwrap(vout).begun) |-> j - 1]
    /\ Len(Unwrap(vout).begun) = Unwrap(vout).done + (IF Unwrap(vout).busy THEN 1 ELSE 0)
    /\ ~Unwrap(vout).busy => Unwrap(vout).inflight = <<>>

----------------------------------------------------------------------------
(* Properties of the Linux dispatcher *)

OnLinux(names) ==
    AppliedOne /\ Unwrap(vin).platform = "linux" /\ Unwrap(vin).op.op \in names

IsLinkSet(cmd) == cmd.program = "ip" /\ SubSeq(cmd.args, 1, 2) = <<"link", "set">>

IsDirectAddressChange(cmd) == cmd.program = "ip" /\ cmd.args[1] = "addr"

IsProfileEdit(cmd) == cmd.program = "nmcli" /\ SubSeq(cmd.args, 1, 2) = <<"con", "mod">>

IsReactivation(cmd) == cmd.program = "nmcli" /\ SubSeq(cmd.args, 1, 2) = <<"con", "up">>

\* What the dispatcher's check of the call's target found: an error, or the
\* connection profile that manages the device, if any.
ManagedCheck == nmcli_connection_for_dev(Unwrap(vin).target.name, Unwrap(vin).env).res

Managed == ManagedCheck.ok /\ IsSome(ManagedCheck.val)

Unmanaged == ManagedCheck.ok /\ ~IsSome(ManagedCheck.val)

\* Every command is a profile edit or a re-activation, a re-activation comes
\* right after an edit that succeeded, and a successful run ends with one.
EditThenReactivate(o, fails) ==
    /\ o.cmds # <<>>
    /\ IsProfileEdit(o.cmds[1])
    /\ \A j \in 1..Len(o.cmds) :
          /\ IsProfileEdit(o.cmds[j]) \/ IsReactivation(o.cmds[j])
          /\ IsReactivation(o.cmds[j]) =>
                j > 1 /\ IsProfileEdit(o.cmds[j - 1]) /\ (j - 1) \notin fails
    /\ o.res.ok => IsReactivation(o.cmds[Len(o.cmds)])

\* C22: on Linux, SetAdminState and SetMtu always go directly through the link
\* tool; AddIp and DelIp first check whether the target is managed by the
\* connection manager: if managed they are performed only as a profile edit
\* followed by a profile re-activation (never a direct runtime address change,
\* the re-activation only after the edit succeeded), and if not managed only
\* as a direct runtime address change.
C22_LinkDirectAddressesByManagement ==
    /\ OnLinux({"SetAdminState", "SetMtu"}) =>
          /\ Unwrap(vout).queries = <<>>
          /\ Len(Unwrap(vout).cmds) = 1
          /\ IsLinkSet(Unwrap(vout).cmds[1])
    /\ OnLinux({"AddIp", "DelIp"}) =>
          /\ ~ManagedCheck.ok => Unwrap(vout).cmds = <<>> /\ Unwrap(vout).res = ManagedCheck
          /\ Managed => EditThenReactivate(Unwrap(vout), Unwrap(vin).env.fails)
          /\ Unmanaged =>
                /\ Len(Unwrap(vout).cmds) = 1
                /\ IsDirectAddressChange(Unwrap(vout).cmds[1])
                /\ Unwrap(vout).cmds[1].args[2] =
                      (IF Unwrap(vin).op.op = "AddIp" THEN "add" ELSE "del")

\* An address added to a managed device: one profile edit, then the
\* re-activation, both successful.
C22_Witness ==
    /\ OnLinux({"AddIp"})
    /\ Managed
    /\ Unwrap(vout).res.ok
    /\ Len(Unwrap(vout).cmds) = 2
    /\ IsProfileEdit(Unwrap(vout).cmds[1])
    /\ IsReactivation(Unwrap(vout).cmds[2])

\* The same commands were run and the same result is reported.
SameEffectAndResult(a, b) == a.cmds = b.cmds /\ a.res = b.res

\* The call's system with /etc/systemd/network present and writable.
WithConfigDir(env) == [env EXCEPT !.persist = "ok"]

\* C23: on Linux, SetIpv4Static applies the address at runtime and attempts to
\* persist it only if the service's configuration directory exists; the
\* operation's runtime effect and its reported result do not depend on that
\* directory being present: without the directory the call runs the commands
\* and reports the result it would with it.
C23_StaticIndependentOfConfigDir ==
    (OnLinux({"SetIpv4Static"}) /\ Unwrap(vin).env.persist = "no_dir") =>
        SameEffectAndResult(Unwrap(vout),
                            apply_one_linux(Unwrap(vin).target, Unwrap(vin).op,
                                            WithConfigDir(Unwrap(vin).env)))

\* The profile edit that puts a connection back on automatic addressing.
IsResetToAuto(cmd) ==
    /\ IsProfileEdit(cmd)
    /\ SubSeq(cmd.args, 5, Len(cmd.args)) =
          <<"ipv4.method", "auto", "ipv4.addresses", "", "ipv4.gateway", "">>

\* DelIp on a managed device whose removing edit the connection manager rejected.
RemovalRejected ==
    OnLinux({"DelIp"}) /\ Managed /\ 1 \in Unwrap(vin).env.fails

\* C24: on Linux, DelIp on a managed interface whose removal of the last manual
\* address is rejected by the connection manager resets the profile to
\* automatic addressing (method auto, addresses and gateway cleared) and
\* re-activates it, reporting success when those steps succeed; any other
\* rejection of the edit is reported as SystemError without re-activating.
C24_LastAddressResetsToAuto ==
    RemovalRejected =>
        IF Unwrap(vin).env.try_err \in LastAddressRejections
        THEN /\ Len(Unwrap(vout).cmds) >= 2
             /\ IsResetToAuto(Unwrap(vout).cmds[2])
             /\ Unwrap(vin).env.fails = {1} =>
                   /\ Len(Unwrap(vout).cmds) = 3
                   /\ IsReactivation(Unwrap(vout).cmds[3])
                   /\ Unwrap(vout).res.ok
        ELSE /\ FailsWith(Unwrap(vout).res, "SystemError")
             /\ \A j \in 1..Len(Unwrap(vout).cmds) : ~IsReactivation(Unwrap(vout).cmds[j])

\* SetIpv4Dhcp { enable: false } on a device the connection manager manages.
DhcpOffManaged ==
    /\ OnLinux({"SetIpv4Dhcp"})
    /\ ~Unwrap(vin).op.enable
    /\ Managed

Printed(run) == run.spawned /\ run.success /\ run.stdout.json /\ run.stdout.array

\* An address a manual profile can be built from: IPv4, not link-local
\* (169.254.0.0/16), with a prefix length of 1 to 32.
IsUsableIpv4(a) ==
    /\ a.family = "inet"
    /\ ParseIpAddr(a.local) = "V4"
    /\ ~(Len(a.local) > 8 /\ SubSeq(a.local, 1, 8) = <<"1", "6", "9", ".", "2", "5", "4", ".">>)
    /\ a.prefixlen \in 1..32

\* The usable addresses the device's address query shows, in the order shown.
ObservedAddresses(run) ==
    IF Printed(run) /\ run.stdout.entries # <<>>
       /\ "addr_info" \in DOMAIN run.stdout.entries[1]
    THEN SelectSeq(run.stdout.entries[1].addr_info, IsUsableIpv4)
    ELSE <<>>

HasGateway(r) == "gateway" \in DOMAIN r /\ r.gateway # <<>>

\* The gateways of the default routes the device's route query shows.
ObservedGateways(run) ==
    IF Printed(run) THEN SelectSeq(run.stdout.entries, HasGateway) ELSE <<>>

IsEditOf(cmd, property) == IsProfileEdit(cmd) /\ cmd.args[5] = property

\* The re-activation is the last command and every command before it is an
\* edit that succeeded; a successful run ends with it.
ReactivatedLast(o, fails) ==
    /\ \A j \in 1..Len(o.cmds) :
          IsReactivation(o.cmds[j]) =>
              /\ j = Len(o.cmds)
              /\ \A i \in 1..(j - 1) : IsProfileEdit(o.cmds[i]) /\ i \notin fails
    /\ o.res.ok => o.cmds # <<>> /\ IsReactivation(o.cmds[Len(o.cmds)])

\* The profile is made manual, given the first usable observed address, and
\* given the observed default gateway exactly when there is one.
ManualFromObserved(o, addrs, gateways) ==
    /\ o.cmds # <<>>
    /\ o.cmds[1].args[5] = "ipv4.method" /\ o.cmds[1].args[6] = "manual"
    /\ \A j \in 1..Len(o.cmds) :
          /\ IsEditOf(o.cmds[j], "ipv4.addresses") =>
                o.cmds[j].args[6] = Cidr(addrs[1].local, addrs[1].prefixlen)
          /\ IsEditOf(o.cmds[j], "ipv4.gateway") =>
                gateways # <<>> /\ o.cmds[j].args[6] = gateways[1].gateway
    /\ o.res.ok =>
          /\ \E j \in 1..Len(o.cmds) : IsEditOf(o.cmds[j], "ipv4.addresses")
          /\ gateways # <<>> => \E j \in 1..Len(o.cmds) : IsEditOf(o.cmds[j], "ipv4.gateway")

\* C25: on Linux, SetIpv4Dhcp{enable:false} on a managed interface builds a
\* manual profile from the currently observed non-link-local IPv4 address and,
\* if one exists, the current default gateway, then re-activates the profile as
\* the last step and only if every edit succeeded; if no current IPv4 address
\* is observed the operation fails before any profile edit is made.
C25_ManualProfileFromObserved ==
    DhcpOffManaged =>
        /\ ReactivatedLast(Unwrap(vout), Unwrap(vin).env.fails)
        /\ ObservedAddresses(Unwrap(vin).env.addr) = <<>> =>
              ~Unwrap(vout).res.ok /\ Unwrap(vout).cmds = <<>>
        /\ (Printed(Unwrap(vin).env.addr) /\ ObservedAddresses(Unwrap(vin).env.addr) = <<>>)
              => FailsWith(Unwrap(vout).res, "InvalidArgument")
        /\ ObservedAddresses(Unwrap(vin).env.addr) # <<>> =>
              ManualFromObserved(Unwrap(vout), ObservedAddresses(Unwrap(vin).env.addr),
                                 ObservedGateways(Unwrap(vin).env.route))

\* DHCP switched off on a device that shows a link-local address before its
\* routable one and has a default gateway: three edits, then the re-activation.
C25_Witness ==
    /\ DhcpOffManaged
    /\ Unwrap(vout).res.ok
    /\ Len(Unwrap(vout).cmds) = 4
    /\ IsEditOf(Unwrap(vout).cmds[2], "ipv4.addresses")
    /\ Unwrap(vout).cmds[2].args[6] = Cidr(IP_V4_PLAIN, 24)
    /\ IsEditOf(Unwrap(vout).cmds[3], "ipv4.gateway")
    /\ IsReactivation(Unwrap(vout).cmds[4])
    /\ Len(ObservedAddresses(Unwrap(vin).env.addr)) > 1

----------------------------------------------------------------------------
(* write_atomic, the replacement of the persisted network file, one system  *)
(* call at a time, with engine processes writing the same file side by side *)

Path(dir, file_name) == [dir |-> dir, file_name |-> file_name]

SYSTEMD_NETWORK_DIR == "/etc/systemd/network"

\* dir.join(format!("99-forgeffi-{dev}.network"))
network_file_path(dev) == Path(SYSTEMD_NETWORK_DIR, <<"99-forgeffi-", dev, ".network">>)

\* The content persist_systemd_networkd_static_ipv4 formats, line by line.
network_file_content(dev, cidr, gateway) ==
    <<"[Match]", <<"Name=", dev>>, "", "[Network]", "DHCP=no", <<"Address=", cidr>>>>
    \o (IF IsSome(gateway) /\ Unwrap(gateway) # <<>>
        THEN <<<<"Gateway=", Unwrap(gateway)>>>>
        ELSE <<>>)

\* A temporary path that is the target itself.
tmp_path_InPlace(path, pid) == path

\* parent.join(format!(".{file_name}.tmp.{pid}"))
tmp_path(path, pid) == Path(path.dir, <<".", path.file_name, ".tmp.", pid>>)

\* open(O_WRONLY | O_CREAT | O_TRUNC) of fs::write
create(files, path) ==
    [q \in DOMAIN files \cup {path} |-> IF q = path THEN <<>> ELSE files[q]]

\* One write(2) of write_all: the next line reaches the file.
append(files, path, line) == [files EXCEPT ![path] = Append(@, line)]

\* rename(2): `to` becomes the file `from` was, in one step.
rename(files, from, to) ==
    [q \in (DOMAIN files \ {from}) \cup {to} |-> IF q = to THEN files[from] ELSE files[q]]

NoFiles == [q \in {} |-> <<>>]

\* The engine processes that persist a configuration for eth0 side by side.
Pids == {4021, 4022}

\* What each of them writes.
WrittenBy ==
    [p \in Pids |->
        IF p = 4021
        THEN network_file_content("eth0", Cidr(IP_V4_PLAIN, 24), Some(IP_V4_ANY))
        ELSE network_file_content("eth0", Cidr(IP_V4_ANY, 8), None)]

\* What the target path holds before: nothing, or an administrator's file.
PreviousContents == {None, Some(<<"[Match]", "Name=eth0", "[Network]", "DHCP=yes">>)}

Writer(at) == [at |-> at]

FsState(files, procs, renamed) == [files |-> files, procs |-> procs, renamed |-> renamed]

InitAtomic ==
    /\ NoCall
    /\ FreshProcess
    /\ NoBuffers
    /\ osIfaces = OsWithEth0
    /\ vin \in {Some([call |-> "write_atomic", path |-> network_file_path("eth0"),
                      previous |-> prev, contents |-> WrittenBy]) :
                    prev \in PreviousContents}
    /\ vout = Some(FsState(IF IsSome(Unwrap(vin).previous)
                           THEN Unwrap(vin).path :> Unwrap(Unwrap(vin).previous)
                           ELSE NoFiles,
                           [p \in Pids |-> Writer("start")], <<>>))

TmpOf(p) == tmp_path(Unwrap(vin).path, p)

WriterAt(p, at) == Unwrap(vout).procs[p].at = at

WriterMoves(p, at, files, renamed) ==
    /\ vout' = Some(FsState(files, [Unwrap(vout).procs EXCEPT ![p] = Writer(at)], renamed))
    /\ BatchFrame

Incomplete(p) ==
    Len(Unwrap(vout).files[TmpOf(p)]) < Len(Unwrap(vin).contents[p])

\* fs::write(&tmp, content): the temporary file is created, or truncated.
CreateTmp ==
    \E p \in Pids :
        /\ WriterAt(p, "start")
        /\ WriterMoves(p, "writing", create(Unwrap(vout).files, TmpOf(p)),
                       Unwrap(vout).renamed)

\* fs::write(&tmp, content)?: the temporary file cannot be created.
CreateTmpFails ==
    \E p \in Pids :
        /\ WriterAt(p, "start")
        /\ WriterMoves(p, "failed", Unwrap(vout).files, Unwrap(vout).renamed)

\* fs::write(&tmp, content): the next part of the content is written.
WriteTmp ==
    \E p \in Pids :
        /\ WriterAt(p, "writing")
        /\ TmpOf(p) \in DOMAIN Unwrap(vout).files
        /\ Incomplete(p)
        /\ WriterMoves(p, "writing",
                       append(Unwrap(vout).files, TmpOf(p),
                              Unwrap(vin).contents[p][Len(Unwrap(vout).files[TmpOf(p)]) + 1]),
                       Unwrap(vout).renamed)

\* fs::write(&tmp, content)?: a write fails, the disk being full for one.
WriteTmpFails ==
    \E p \in Pids :
        /\ WriterAt(p, "writing")
        /\ TmpOf(p) \in DOMAIN Unwrap(vout).files
        /\ Incomplete(p)
        /\ WriterMoves(p, "failed", Unwrap(vout).files, Unwrap(vout).renamed)

\* fs::rename(&tmp, path), fs::write having returned Ok.
RenameTmp ==
    \E p \in Pids :
        /\ WriterAt(p, "writing")
        /\ TmpOf(p) \in DOMAIN Unwrap(vout).files
        /\ ~Incomplete(p)
        /\ WriterMoves(p, "done", rename(Unwrap(vout).files, TmpOf(p), Unwrap(vin).path),
                       Append(Unwrap(vout).renamed, p))

\* fs::rename(&tmp, path)?: the rename fails.
RenameTmpFails ==
    \E p \in Pids :
        /\ WriterAt(p, "writing")
        /\ TmpOf(p) \in DOMAIN Unwrap(vout).files
        /\ ~Incomplete(p)
        /\ WriterMoves(p, "failed", Unwrap(vout).files, Unwrap(vout).renamed)

NextAtomic ==
    CreateTmp \/ CreateTmpFails \/ WriteTmp \/ WriteTmpFails \/ RenameTmp \/ RenameTmpFails

SpecAtomic == InitAtomic /\ [][NextAtomic]_vars

----------------------------------------------------------------------------
(* Properties of the persisted file *)

\* What the target path holds now.
TargetContent ==
    IF Unwrap(vin).path \in DOMAIN Unwrap(vout).files
    THEN Some(Unwrap(vout).files[Unwrap(vin).path])
    ELSE None

LastRenamed == Unwrap(vout).renamed[Len(Unwrap(vout).renamed)]

\* C26: the persisted network-configuration file is replaced atomically: the
\* content is written completely to a temporary path in the same directory
\* and then renamed onto the target, so at every moment the target path holds
\* either its previous content or the complete new content, and a failed
\* write leaves the target untouched.
C26_TargetPreviousOrComplete ==
    /\ \A p \in Pids :
          /\ TmpOf(p).dir = Unwrap(vin).path.dir
          /\ WriterAt(p, "failed") =>
                \A j \in 1..Len(Unwrap(vout).renamed) : Unwrap(vout).renamed[j] # p
    /\ TargetContent = (IF Unwrap(vout).renamed = <<>>
                        THEN Unwrap(vin).previous
                        ELSE Some(Unwrap(vin).contents[LastRenamed]))

\* One writer failed part-way through its temporary file, which is left
\* behind incomplete, while the other replaced an existing target.
C26_Witness ==
    /\ IsSome(Unwrap(vin).previous)
    /\ WriterAt(4021, "failed")
    /\ TmpOf(4021) \in DOMAIN Unwrap(vout).files
    /\ Unwrap(vout).files[TmpOf(4021)] # <<>>
    /\ Incomplete(4021)
    /\ WriterAt(4022, "done")
    /\ TargetContent = Some(Unwrap(vin).contents[4022])

----------------------------------------------------------------------------
(* nmcli_available() over the life of one process: enumerations and         *)
(* operations that query it, on a system where nmcli comes and goes         *)

\* What has been seen of the detection so far: whether nmcli was there when
\* it was first queried, how often `nmcli -v` was run, how many calls were
\* made, and what the last query answered.
Memo(first, probes, calls, answer) ==
    [first |-> first, probes |-> probes, calls |-> calls, answer |-> answer]

\* The history after a call that queried the detection (or did not).
Queries(h, asked, cached, nmcli, answer) ==
    Memo(IF asked /\ h.first = None THEN Some(nmcli) ELSE h.first,
         h.probes + (IF asked THEN Len(detect([cached |-> cached])) ELSE 0),
         h.calls + 1,
         IF asked THEN Some(answer) ELSE None)

\* The operations that ask nmcli_connection_for_dev, and one that does not.
MemoOps == {SetMtu(0), AddIp(IP_V4_PLAIN, 24), SetIpv4Dhcp(TRUE)}

AsksConnection(op) == op.op \notin {"SetAdminState", "SetMtu"}

\* The systems an operation of this process can now run in.
MemoEnvs(op) ==
    {e \in LinuxEnvs(op) : /\ ConsistentEnv(e)
                           /\ e.cached = CACHED
                           /\ e.nmcli = osNmcli
                           /\ e.fails = {}}

MemoRuns == {Run(TRUE, FALSE, NoOutput, {"error"})}
            \cup {Run(TRUE, TRUE, text, {}) : text \in LinuxParsable}

InitMemo ==
    /\ NoCall
    /\ FreshProcess
    /\ NoBuffers
    /\ osIfaces = OsWithEth0
    /\ vin = None
    /\ vout = Some(Memo(None, 0, 0, None))

MemoFrame ==
    UNCHANGED <<pc, input, osIfaces, ifaces, target, k, results, all_ok, out, ret,
                enumCalls, resolveCalls, validated, dispatched,
                parseCalls, osNmcli, lastList, memVars>>

\* What list_interfaces reports of the detection: can_set_dhcp of an interface.
ListedAnswer(listed) == listed.ok /\ Len(listed.val) > 0 /\ listed.val[1].can_set_dhcp

\* What an operation shows of the detection: it went on to ask nmcli for the
\* device's connection.
AppliedAnswer(o, dev) == \E j \in 1..Len(o.queries) : o.queries[j] = nmcli_dev_show(dev)

MemoListed(run, listed) ==
    /\ vin' = Some([call |-> "list", platform |-> "linux", run |-> run])
    /\ CACHED' = CachedAfterList(listed, CACHED, osNmcli)
    /\ vout' = Some(Queries(Unwrap(vout), listed.ok /\ Len(listed.val) > 0,
                            CACHED, osNmcli, ListedAnswer(listed)))
    /\ MemoFrame

\* platform_linux::list_interfaces, called once more.
MemoList ==
    /\ Unwrap(vout).calls < MaxCalls
    /\ \E run \in MemoRuns :
          MemoListed(run, list_interfaces_linux_run(run, CACHED, osNmcli))

MemoApplied(op, env, o) ==
    /\ vin' = Some([call |-> "apply_one", platform |-> "linux", op |-> op, env |-> env])
    /\ CACHED' = IF AsksConnection(op) THEN get_or_init(CACHED, osNmcli) ELSE CACHED
    /\ vout' = Some(Queries(Unwrap(vout), AsksConnection(op), CACHED, osNmcli,
                            AppliedAnswer(o, "eth0")))
    /\ MemoFrame

\* platform_linux::apply_one, called once more.
MemoApply ==
    /\ Unwrap(vout).calls < MaxCalls
    /\ \E op \in MemoOps :
          \E env \in MemoEnvs(op) :
              MemoApplied(op, env,
                          apply_one_linux(ResolvedTarget(NetInterface(2, "eth0")), op, env))

NextMemo == MemoList \/ MemoApply \/ NmcliChange

SpecMemo == InitMemo /\ [][NextMemo]_vars

----------------------------------------------------------------------------
(* Properties of the memoised detection *)

\* C27: whether the connection manager's CLI is available is computed at most
\* once per process lifetime; every later query, from enumeration or from any
\* operation, returns the first observed value even if the tool appears or
\* disappears afterwards; the memoised value is the only state that one call
\* leaves to the next.
C27_DetectedOnceThenRemembered ==
    /\ Unwrap(vout).probes <= 1
    /\ Unwrap(vout).probes = 1 <=> IsSome(Unwrap(vout).first)
    /\ CACHED = Unwrap(vout).first
    /\ IsSome(Unwrap(vout).answer) => Unwrap(vout).answer = Unwrap(vout).first

\* nmcli was there when the detection was first queried and is gone when a
\* later operation asks: the operation still goes to nmcli for the connection.
C27_Witness ==
    /\ Unwrap(vout).calls = 2
    /\ Unwrap(vout).first = Some(TRUE)
    /\ ~osNmcli
    /\ IsSome(vin)
    /\ Unwrap(vin).call = "apply_one"
    /\ Unwrap(vin).op.op = "AddIp"
    /\ ~Unwrap(vin).env.nmcli
    /\ Unwrap(vout).answer = Some(TRUE)

----------------------------------------------------------------------------
(* Properties of apply's return code *)

AppliedRequest == Unwrap(last.input.req)

\* The last call was an apply whose request was decoded, matched the ABI, and
\* whose enumeration and target resolution succeeded.
ApplyWentThrough ==
    /\ last.fn = "apply"
    /\ last.input.kind = "request"
    /\ ~AbiMismatch(AppliedRequest)
    /\ IsSome(lastList)
    /\ Unwrap(lastList).by = "apply"
    /\ Unwrap(lastList).listed.ok
    /\ resolve_target(AppliedRequest.target, Unwrap(lastList).listed.val).ok

\* An apply envelope for the operations `ops`: one result per operation, in
\* order, a failed one carrying its error, and ok saying whether all succeeded.
IsApplyEnvelope(p, ops) ==
    /\ DOMAIN p = {"abi", "ok", "results"}
    /\ p.abi = ABI_VERSION
    /\ Len(p.results) = Len(ops)
    /\ \A j \in 1..Len(ops) :
          /\ p.results[j].i = j - 1
          /\ p.results[j].ok <=> "error" \notin DOMAIN p.results[j]
          /\ ~validate_op(ops[j]).ok => ~p.results[j].ok
    /\ p.ok <=> \A j \in 1..Len(ops) : p.results[j].ok

\* C28: the integer returned by apply at the C boundary reflects only
\* call-level failure: whenever the request was decoded, ABI-matched,
\* enumerated and resolved, apply returns 0 and writes an apply envelope, even
\* if some or all operations failed; per-operation failure is visible only
\* through ok == false and the results in the payload.
C28_ReturnCodeIsCallLevel ==
    /\ last.fn = "apply" => (last.ret = 0 <=> ApplyWentThrough)
    /\ ApplyWentThrough =>
          /\ ~last.failed
          /\ IsSome(last.out)
          /\ IsSome(last.payload)
          /\ IsApplyEnvelope(Unwrap(last.payload), AppliedRequest.ops)

\* A batch of two whose operations both failed, one in validation and one in
\* the platform layer: apply returned 0 and the payload says ok == false.
C28_Witness ==
    /\ ApplyWentThrough
    /\ Len(AppliedRequest.ops) = 2
    /\ last.ret = 0
    /\ IsSome(last.payload)
    /\ ~Unwrap(last.payload).ok
    /\ ~Unwrap(last.payload).results[1].ok
    /\ ~Unwrap(last.payload).results[2].ok
    /\ Unwrap(last.payload).results[1].error.code = "InvalidArgument"
    /\ Unwrap(last.payload).results[2].error.code = "SystemError"

----------------------------------------------------------------------------
(* Properties of target resolution on macOS *)

\* A target was resolved on macOS against a listing ifconfig provided.
ResolvedOnMac ==
    /\ IsSome(vin)
    /\ Unwrap(vin).call = "resolve"
    /\ Unwrap(vin).platform = "macos"
    /\ IsSome(vout)
    /\ list_interfaces_macos(Unwrap(vin).run).ok

MacListing == list_interfaces_macos(Unwrap(vin).run).val

ByNonzeroIndex(sel) == IsSome(sel.if_index) /\ Unwrap(sel.if_index) # 0

NamesAnInterface(sel, ifs) ==
    IsSome(sel.name) /\ \E j \in 1..Len(ifs) : ifs[j].name = Unwrap(sel.name)

\* C29: on macOS every enumerated interface has if_index 0, so an interface
\* can only be resolved by name: any selector carrying a nonzero if_index
\* fails NotFound, including when its name field exactly matches an existing
\* interface.
C29_MacResolvesByNameOnly ==
    ResolvedOnMac =>
        /\ \A j \in 1..Len(MacListing) : MacListing[j].if_index = 0
        /\ ByNonzeroIndex(Unwrap(vin).sel) => FailsWith(Unwrap(vout), "NotFound")
        /\ Unwrap(vout).ok =>
              /\ NamesAnInterface(Unwrap(vin).sel, MacListing)
              /\ Unwrap(vout).val.name = Unwrap(Unwrap(vin).sel.name)

\* A selector with a nonzero index and the name of an interface that is there.
C29_Witness ==
    /\ ResolvedOnMac
    /\ ByNonzeroIndex(Unwrap(vin).sel)
    /\ NamesAnInterface(Unwrap(vin).sel, MacListing)
    /\ FailsWith(Unwrap(vout), "NotFound")

----------------------------------------------------------------------------
(* Properties of IPv6 addresses on managed interfaces *)

Ipv4Properties ==
    {"ipv4.method", "ipv4.addresses", "+ipv4.addresses", "-ipv4.addresses", "ipv4.gateway"}

Ipv6AddressProperties == {"ipv6.addresses", "+ipv6.addresses", "-ipv6.addresses"}

\* The properties a `con mod id <conn> <property> <value> ...` sets.
PropertiesOf(cmd) == {cmd.args[j] : j \in {j \in 5..Len(cmd.args) : j % 2 = 1}}

\* AddIp or DelIp of a validated IPv6 address on a managed device.
Ipv6OnManaged ==
    /\ OnLinux({"AddIp", "DelIp"})
    /\ Managed
    /\ validate_op(Unwrap(vin).op).ok
    /\ ParseIpAddr(Unwrap(vin).op.ip) = "V6"

\* C30: on Linux, AddIp/DelIp of a validated IPv6 address on a
\* connection-manager-managed interface changes only the profile's IPv6
\* address list and leaves the profile's IPv4 method and IPv4 address list
\* unchanged.
C30_Ipv6LeavesIpv4Profile ==
    Ipv6OnManaged =>
        \A j \in 1..Len(Unwrap(vout).cmds) :
            IsProfileEdit(Unwrap(vout).cmds[j]) =>
                /\ PropertiesOf(Unwrap(vout).cmds[j]) \cap Ipv4Properties = {}
                /\ PropertiesOf(Unwrap(vout).cmds[j]) \subseteq Ipv6AddressProperties

====
